---------------------------- MODULE Spec2Model ----------------------------
(***************************************************************************)
(* Hierarchical memory accounting: be/src/runtime/mem_tracker.h.           *)
(*                                                                         *)
(* A fixed tree of four MemTrackers                                        *)
(*                                                                         *)
(*        root  <-  mid  <-  leaf                                          *)
(*        root  <-  sib                                                    *)
(*                                                                         *)
(* is driven by threads that call consume, release and try_consume.  Each  *)
(* atomic counter update of a call is one step of the model, so calls of   *)
(* different threads interleave between any two counter updates.           *)
(* GcFunctions are registered on the root tracker; each one gives back     *)
(* memory of a cache that is charged directly at the root.                 *)
(***************************************************************************)
EXTENDS Integers, Sequences, FiniteSets

\* ------------------------------------------------------------------ bounds
\* Largest |bytes| argument of a call.
MaxBytes == 2
\* Largest number of bytes one thread holds (consumed and not yet released).
MaxHeld == 2
\* Largest number of bytes one GcFunction's cache holds at start.
MaxCache == 1
\* Largest value of the gauge behind a consumption metric.
MaxMetric == 1

\* ------------------------------------------------------------------ the tree
NULL == "null"

Trackers == {"root", "mid", "leaf", "sib"}

Threads == {"t1", "t2"}

\* MemTracker::_parent
Parent(n) ==
    CASE n = "root" -> NULL
      [] n = "mid"  -> "root"
      [] n = "leaf" -> "mid"
      [] n = "sib"  -> "root"

\* A slip: the walk starts at the parent and leaves the tracker itself out.
RECURSIVE AncestorsOnly(_)
AncestorsOnly(n) ==
    IF Parent(n) = NULL THEN <<>> ELSE <<Parent(n)>> \o AncestorsOnly(Parent(n))

\* MemTracker::_all_trackers: this tracker plus all of its ancestors, self first.
RECURSIVE AllTrackers(_)
AllTrackers(n) ==
    IF Parent(n) = NULL THEN <<n>> ELSE <<n>> \o AllTrackers(Parent(n))

\* MemTracker::_child_trackers after construction: the constructor of each child
\* appends it to its parent's list (add_child_tracker); mid is made before sib.
ChildTrackers(n) ==
    CASE n = "root" -> <<"mid", "sib">>
      [] n = "mid"  -> <<"leaf">>
      [] OTHER      -> <<>>

\* The set of the trackers of _all_trackers.
Chain(n) == {AllTrackers(n)[x] : x \in 1..Len(AllTrackers(n))}

\* The GcFunctions there are, and the order they are added in (to the root).
Callbacks == {"gc1", "gc2"}

Registered == <<"gc1", "gc2">>

\* The limits the trackers are constructed with (byte_limit < 0: no limit).
Limits(root, mid) ==
    {f \in [Trackers -> -1..2] : /\ f["root"] \in root
                                 /\ f["mid"] \in mid
                                 /\ f["leaf"] = -1
                                 /\ f["sib"] = -1}

\* The same with a limit at the leaf as well.
LimitsAt(root, mid, leaf) ==
    {f \in [Trackers -> -1..2] : /\ f["root"] \in root
                                 /\ f["mid"] \in mid
                                 /\ f["leaf"] \in leaf
                                 /\ f["sib"] = -1}

Min(a, b) == IF a <= b THEN a ELSE b

Max(a, b) == IF a >= b THEN a ELSE b

RECURSIVE SumOver(_, _)
SumOver(f, S) ==
    IF S = {} THEN 0
    ELSE LET x == CHOOSE y \in S : TRUE IN f[x] + SumOver(f, S \ {x})

\* ------------------------------------------------------------------ state
VARIABLES
    limit,               \* _limit of each tracker
    consumption,         \* _consumption->current_value() of each tracker
    consumption_metric,  \* _consumption_metric of each tracker: <<>> (NULL) or <<the gauge's value>>
    all_trackers,        \* _all_trackers of each tracker: itself and its ancestors
    limit_trackers,      \* _limit_trackers of each tracker: _all_trackers with a limit
    child_trackers,      \* _child_trackers of each tracker, in the order they were added
    gc_functions,        \* _gc_functions of each tracker, in the order they were added
    gc_lock,             \* _gc_lock of each tracker: NULL or the thread holding it
    cache,               \* bytes each GcFunction can still give back
    pc,                  \* where each thread stands in its call
    call,                \* the call each thread is in: [op, tracker, bytes]
    loc,                 \* the locals of the call: bytes, i, j, limit, curr, k
    ret,                 \* the last call each thread returned from, with its result
    held,                \* bytes each thread has charged at each tracker and not released
    pre,                 \* consumption and cache as they were when a lone thread's call started
    contrib,             \* what the thread's call has added to each counter so far
    gcCalls,             \* how often the call has invoked each GcFunction (0, 1, 2 = more)
    gcLog,               \* bytes_to_free passed to the callbacks of the GcMemory in progress
    current_value,       \* one HighWaterMarkCounter on its own: its current value
    peak_value,          \* ... and its high-water mark
    cthr,                \* where each thread stands in its add / try_add on that counter
    cret,                \* the last add / try_add each thread returned from
    seen,                \* the largest value current_value has taken
    tally,               \* the sum of the deltas of the adds and try_adds that took effect
    peak,                \* _consumption->value() of each tracker, where a specification follows it
    child_trackers_lock, \* _child_trackers_lock of each tracker: NULL or the thread holding it
    child_tracker_it,    \* _child_tracker_it of each tracker: "none", "in" (its own entry) or "end"
    born,                \* the trackers with a parent, in the order add_child_tracker inserted them
    listing,             \* each thread's list_mem_usage: items, its records at the call, the frames
    exec_env,            \* ExecEnv::GetInstance(): the tracker behind each named accessor, or NULL
    memory_metrics,      \* SystemMetrics::_memory_metrics: the gauge of each named tracker
    update_at,           \* where _update_memory_metrics stands: 0 (not running) or the next name
    registry,            \* SystemMetrics::_registry: NULL or the registry recorded by install
    hooked,              \* the registries that hold the update hook of the SystemMetrics
    metric_groups,       \* the metric groups install has registered
    alive,               \* the SystemMetrics is constructed and not yet destroyed
    installs,            \* what register_hook returned in each install so far
    deregistered         \* how often the destructor has called deregister_hook

\* The counter studied on its own, one instruction at a time.
counter == <<current_value, peak_value, cthr, cret, seen, tally>>

\* util/system_metrics.cpp: the SystemMetrics and what it publishes.
publisher == <<exec_env, memory_metrics, update_at, registry, hooked, metric_groups,
               alive, installs, deregistered>>

\* The child lists, their locks and what walks them.
family == <<child_trackers, child_trackers_lock, child_tracker_it, born, listing>>

vars == <<limit, consumption, consumption_metric, all_trackers, limit_trackers,
          family, gc_functions, gc_lock, cache, pc, call,
          loc, ret, held, pre, contrib, gcCalls, gcLog, counter, peak, publisher>>

\* What no call on a tracker changes: the wiring of the trackers, and the
\* counter studied on its own.
setup == <<limit, consumption_metric, all_trackers, limit_trackers, family,
           gc_functions, counter, publisher>>

shared == <<setup, consumption, gc_lock, cache>>

\* What the calls work on and what is recorded of them.
calls == <<consumption, gc_lock, cache, pc, call, loc, ret, held, contrib, gcCalls, gcLog>>

NoCall == [op |-> "none", tracker |-> NULL, bytes |-> 0]

NoRet == [op |-> "none", tracker |-> NULL, bytes |-> 0, res |-> TRUE, at |-> NULL,
          gc |-> FALSE]

NoLoc == [bytes |-> 0, i |-> 0, j |-> 0, limit |-> 0, curr |-> 0, k |-> 0, end |-> NULL]

Zero == [n \in Trackers |-> 0]

HeldTotal(t) == SumOver(held[t], Trackers)

\* ------------------------------------------------------------------ counter
\* HighWaterMarkCounter::add(delta): the new current value.
CounterAdd(v, delta) == v + delta

\* HighWaterMarkCounter::try_add(delta, max): succeeds iff the new value is <= max.
CounterTryAdd(v, delta, max) == v + delta <= max

\* The counters after add(delta) on tracker n.
AddTo(c, n, delta) == [c EXCEPT ![n] = CounterAdd(@, delta)]


\* ------------------------------------------------------------------ helpers
Set(f, t, v) == [f EXCEPT ![t] = v]

\* f with v more at a and v less at b.
Plus2(f, a, v, b) == [m \in DOMAIN f |-> f[m] + (IF m = a THEN v ELSE 0) - (IF m = b THEN v ELSE 0)]

\* The tracker a GcFunction gives memory back to: it calls release() on it.
CbTracker(c) == "root"

\* _consumption_metric != NULL.
HasMetric(n) == consumption_metric[n] # <<>>

\* _consumption_metric->value().
MetricValue(m) == m[1]

\* A slip: the metric's value is added to the tally.
RefreshAdds(c, n) == [c EXCEPT ![n] = @ + MetricValue(consumption_metric[n])]

\* MemTracker::RefreshConsumptionFromMetric: _consumption->set(metric value).
RefreshConsumptionFromMetric(c, n) == [c EXCEPT ![n] = MetricValue(consumption_metric[n])]

\* A slip: limit <= 0 taken for "no limit".
NoLimitOrZero(lim) == lim <= 0

\* try_consume line 196: no limit at this tracker.
NoLimit(lim) == lim < 0

\* A slip: GcMemory(limit) instead of GcMemory(limit - bytes).
GcTargetIsLimit(lim, bytes) == lim

\* try_consume line 208: the max_consumption handed to GcMemory.
GcTarget(lim, bytes) == lim - bytes

\* Slips in the bound of the rollback loop: j >= i also takes bytes from the
\* tracker that refused them; j > i + 1 leaves them at the last one that took them.
RollbackIncludesFailed(j, i) == j >= i

RollbackStopsEarly(j, i) == j > i + 1

\* try_consume line 211: the rollback loop runs while j > i.
RollbackContinues(j, i) == j > i

\* A slip: the result of GcMemory is ignored and the loop always comes round.
GcNeverFails(stillOver) == FALSE

\* try_consume line 208: the call fails when GcMemory returns true.
GcFailed(stillOver) == stillOver

\* A slip: the loop stops before the last of _all_trackers, the root.
ChainEndsEarly(all) == Len(all) - 1

\* consume line 134 / release line 236: the loop ends after the last of _all_trackers.
ChainEnd(all) == Len(all)

\* A slip: release adds bytes.
ReleaseAdds(bytes) == bytes

\* release line 238: add(-bytes).
ReleaseDelta(bytes) == -bytes

\* A slip: the argument is handed on as it is.
NotNegated(bytes) == bytes

\* consume line 127 / release line 229: a negative argument is handed to the
\* opposite operation with its sign flipped.
Redirected(bytes) == -bytes

\* A slip: at exactly max_consumption the callbacks are still run.
GcNotNeededBelow(curr, max) == curr < max

\* GcMemory: no GC is needed when consumption is already at or below the target.
GcNotNeeded(curr, max) == curr <= max

\* A slip: standing exactly at max_consumption counts as still over.
StillOverOrAt(curr, max) == curr >= max

\* GcMemory: the result, "max_consumption is still exceeded".
StillOver(curr, max) == curr > max

\* GcMemory: the bytes_to_free handed to a callback.
BytesToFree(curr, max) == curr - max

\* What the caller may ask for: it releases only what it holds at the tracker,
\* and holds at most MaxHeld bytes in all.
MayCharge(t, bytes) == HeldTotal(t) + bytes <= MaxHeld

MayFree(t, n, bytes) == held[t][n] >= bytes

\* The call of thread t returns res.
ReturnAt(t, op, n, bytes, res, at) ==
    /\ pc' = Set(pc, t, "idle")
    /\ call' = Set(call, t, NoCall)
    /\ loc' = Set(loc, t, NoLoc)
    /\ ret' = Set(ret, t, [op |-> op, tracker |-> n, bytes |-> bytes, res |-> res, at |-> at,
                            gc |-> \E c \in Callbacks : gcCalls[t][c] > 0])
    /\ gcCalls' = Set(gcCalls, t, [c \in Callbacks |-> 0])
    /\ UNCHANGED gcLog

Return(t, op, n, bytes, res) == ReturnAt(t, op, n, bytes, res, NULL)

\* Thread t enters the call op(n, arg) and stands at label l with locals v.
Enter(t, op, n, arg, l, v) ==
    /\ pc' = Set(pc, t, l)
    /\ call' = Set(call, t, [op |-> op, tracker |-> n, bytes |-> arg])
    /\ loc' = Set(loc, t, v)
    /\ ret' = Set(ret, t, NoRet)
    /\ UNCHANGED <<gcCalls, gcLog>>

\* The call of thread t goes on at label l with locals v.
Jump(t, l, v) ==
    /\ pc' = Set(pc, t, l)
    /\ loc' = Set(loc, t, v)
    /\ UNCHANGED <<call, ret>>

Goto(t, l, v) ==
    /\ Jump(t, l, v)
    /\ UNCHANGED <<gcCalls, gcLog>>

\* A slip: the counter of a tracker is updated under the tracker's _gc_lock.
ChargeUnderLock(t, n, delta) ==
    /\ gc_lock[n] = NULL
    /\ consumption' = AddTo(consumption, n, delta)
    /\ contrib' = [contrib EXCEPT ![t][n] = @ + delta]

\* Thread t's call adds delta to tracker n's counter.
Charge(t, n, delta) ==
    /\ consumption' = AddTo(consumption, n, delta)
    /\ contrib' = [contrib EXCEPT ![t][n] = @ + delta]

\* ------------------------------------------------------------------ consume / release
\* The body of consume(bytes) for bytes > 0, lines 130-141, up to the loop.
ConsumeBody(t, op, n, arg, bytes) ==
    IF HasMetric(n)
    THEN /\ consumption' = RefreshConsumptionFromMetric(consumption, n)
         /\ Return(t, op, n, arg, TRUE)
         /\ UNCHANGED held
    ELSE /\ MayCharge(t, bytes)
         /\ Enter(t, op, n, arg, "consume", [NoLoc EXCEPT !.bytes = bytes, !.i = 1])
         /\ UNCHANGED <<consumption, held>>

\* The body of release(bytes) for bytes > 0, lines 232-249, up to the loop.
ReleaseBody(t, op, n, arg, bytes) ==
    IF HasMetric(n)
    THEN /\ consumption' = RefreshConsumptionFromMetric(consumption, n)
         /\ Return(t, op, n, arg, TRUE)
         /\ UNCHANGED held
    ELSE /\ MayFree(t, n, bytes)
         /\ Enter(t, op, n, arg, "release", [NoLoc EXCEPT !.bytes = bytes, !.i = 1])
         /\ held' = [held EXCEPT ![t][n] = @ - bytes]
         /\ UNCHANGED consumption

\* consume(bytes), lines 125-133: the call and its early returns.
ConsumeCall(t, n, bytes) ==
    /\ pc[t] = "idle"
    /\ contrib' = Set(contrib, t, Zero)
    /\ IF bytes <= 0
       THEN IF bytes < 0
            THEN ReleaseBody(t, "consume", n, bytes, Redirected(bytes))
            ELSE /\ Return(t, "consume", n, bytes, TRUE)
                 /\ UNCHANGED <<consumption, held>>
       ELSE ConsumeBody(t, "consume", n, bytes, bytes)
    /\ UNCHANGED <<setup, gc_lock, cache>>

\* release(bytes), lines 227-235: the call and its early returns.
ReleaseCall(t, n, bytes) ==
    /\ pc[t] = "idle"
    /\ contrib' = Set(contrib, t, Zero)
    /\ IF bytes <= 0
       THEN IF bytes < 0
            THEN ConsumeBody(t, "release", n, bytes, Redirected(bytes))
            ELSE /\ Return(t, "release", n, bytes, TRUE)
                 /\ UNCHANGED <<consumption, held>>
       ELSE ReleaseBody(t, "release", n, bytes, bytes)
    /\ UNCHANGED <<setup, gc_lock, cache>>

\* One iteration of consume's loop over _all_trackers, lines 134-140.
ConsumeStep(t) ==
    /\ pc[t] = "consume"
    /\ LET n == call[t].tracker
           all == all_trackers[n]
           i == loc[t].i
       IN /\ Charge(t, all[i], loc[t].bytes)
          /\ IF i >= ChainEnd(all)
             THEN /\ Return(t, call[t].op, n, call[t].bytes, TRUE)
                  /\ held' = [held EXCEPT ![t][n] = @ + loc[t].bytes]
             ELSE /\ Goto(t, "consume", [loc[t] EXCEPT !.i = i + 1])
                  /\ UNCHANGED held
    /\ UNCHANGED <<setup, gc_lock, cache>>

\* One iteration of release's loop over _all_trackers, lines 236-249.
ReleaseStep(t) ==
    /\ pc[t] = "release"
    /\ LET n == call[t].tracker
           all == all_trackers[n]
           i == loc[t].i
       IN /\ Charge(t, all[i], ReleaseDelta(loc[t].bytes))
          /\ IF i >= ChainEnd(all)
             THEN Return(t, call[t].op, n, call[t].bytes, TRUE)
             ELSE Goto(t, "release", [loc[t] EXCEPT !.i = i + 1])
    /\ UNCHANGED <<setup, gc_lock, cache, held>>

\* ------------------------------------------------------------------ consume_local / release_local
\* A slip: the loop stops after the charge at end_tracker, not before it.
LocalStopsAfter(all, i, end) == i > 1 /\ all[i - 1] = end

\* consume_local line 151: if (_all_trackers[i] == end_tracker) return.
LocalStops(all, i, end) == all[i] = end

\* What the caller may move: the tracking of bytes it holds, from the tracker
\* they are counted at to the other one.
MayMove(t, from, bytes) == held[t][from] >= bytes

\* consume_local(bytes, end_tracker) on tracker n, lines 148-150: the call.  It
\* takes over the tracking of bytes already charged at end_tracker.
ConsumeLocalCall(t, n, bytes, end) ==
    /\ pc[t] = "idle"
    /\ ~HasMetric(n)
    /\ MayMove(t, end, bytes)
    /\ contrib' = Set(contrib, t, Zero)
    /\ Enter(t, "consume_local", n, bytes, "local",
             [NoLoc EXCEPT !.bytes = bytes, !.i = 1, !.end = end])
    /\ held' = [held EXCEPT ![t] = Plus2(@, n, bytes, end)]
    /\ UNCHANGED <<setup, consumption, gc_lock, cache>>

\* release_local(bytes, end_tracker), line 158: consume_local(-bytes, end_tracker).
\* It hands the tracking of bytes counted at n over to end_tracker.
ReleaseLocalCall(t, n, bytes, end) ==
    /\ pc[t] = "idle"
    /\ ~HasMetric(n)
    /\ MayMove(t, n, bytes)
    /\ contrib' = Set(contrib, t, Zero)
    /\ Enter(t, "release_local", n, bytes, "local",
             [NoLoc EXCEPT !.bytes = Redirected(bytes), !.i = 1, !.end = end])
    /\ held' = [held EXCEPT ![t] = Plus2(@, end, bytes, n)]
    /\ UNCHANGED <<setup, consumption, gc_lock, cache>>

\* has_limit(), line 303.
HasLimit(n) == limit[n] >= 0

\* One iteration of consume_local's loop, lines 150-154, or its end: the early
\* return at end_tracker, or the assertion after the loop (the result false
\* at end_tracker stands for "end_tracker is not an ancestor").  At a tracker
\* with a limit DCHECK(!has_limit()), line 152, stops a debug build (the result
\* false at that tracker) and is nothing in a release build.
LocalStep(t) ==
    /\ pc[t] = "local"
    /\ LET n == call[t].tracker
           all == all_trackers[n]
           i == loc[t].i
       IN IF i > Len(all)
          THEN /\ ReturnAt(t, call[t].op, n, call[t].bytes, FALSE, loc[t].end)
               /\ UNCHANGED <<consumption, contrib>>
          ELSE IF LocalStops(all, i, loc[t].end)
               THEN /\ ReturnAt(t, call[t].op, n, call[t].bytes, TRUE, loc[t].end)
                    /\ UNCHANGED <<consumption, contrib>>
               ELSE \/ /\ Charge(t, all[i], loc[t].bytes)
                       /\ Goto(t, "local", [loc[t] EXCEPT !.i = i + 1])
                    \/ /\ HasLimit(all[i])
                       /\ ReturnAt(t, call[t].op, n, call[t].bytes, FALSE, all[i])
                       /\ UNCHANGED <<consumption, contrib>>
    /\ UNCHANGED <<setup, gc_lock, cache, held>>

\* ------------------------------------------------------------------ try_consume
\* The charge at _all_trackers[i] succeeded: the loop goes on with i - 1, and the
\* call returns true after the last tracker (lines 193, 221-223).
Advance(t) ==
    LET n == call[t].tracker
        i == loc[t].i
    IN IF i = 1
       THEN /\ Return(t, "try_consume", n, call[t].bytes, TRUE)
            /\ held' = [held EXCEPT ![t][n] = @ + loc[t].bytes]
       ELSE /\ Goto(t, "try_loop", [loc[t] EXCEPT !.i = i - 1])
            /\ UNCHANGED held

\* tracker->_consumption->try_add(bytes, limit), line 203, and what follows it.
TryAdd(t, tracker, lim) ==
    IF CounterTryAdd(consumption[tracker], loc[t].bytes, lim)
    THEN /\ Charge(t, tracker, loc[t].bytes)
         /\ Advance(t)
    ELSE /\ Goto(t, "gc", [loc[t] EXCEPT !.limit = lim])
         /\ UNCHANGED <<consumption, contrib, held>>

\* A slip: only a zero argument returns at once.
NothingAsked(bytes) == bytes = 0

\* try_consume line 189: if (bytes <= 0) return true.
NothingToReserve(bytes) == bytes <= 0

\* try_consume(bytes), lines 188-191: the call, up to the loop.
TryConsumeCall(t, n, bytes) ==
    /\ pc[t] = "idle"
    /\ contrib' = Set(contrib, t, Zero)
    /\ IF NothingToReserve(bytes)
       THEN /\ Return(t, "try_consume", n, bytes, TRUE)
            /\ UNCHANGED consumption
       ELSE /\ MayCharge(t, bytes)
            /\ IF HasMetric(n)
               THEN consumption' = RefreshConsumptionFromMetric(consumption, n)
               ELSE UNCHANGED consumption
            /\ Enter(t, "try_consume", n, bytes, "try_loop",
                     [NoLoc EXCEPT !.bytes = bytes, !.i = Len(all_trackers[n])])
    /\ UNCHANGED <<setup, gc_lock, cache, held>>

\* One iteration of the top-down loop, lines 193-203: read the tracker's limit,
\* then add (no limit) or make the first try_add.
TryVisit(t) ==
    /\ pc[t] = "try_loop"
    /\ LET tracker == all_trackers[call[t].tracker][loc[t].i]
           lim == limit[tracker]
       IN IF NoLimit(lim)
          THEN /\ Charge(t, tracker, loc[t].bytes)
               /\ Advance(t)
          ELSE TryAdd(t, tracker, lim)
    /\ UNCHANGED <<setup, gc_lock, cache>>

\* A slip: the tracker's limit is read again when the loop comes round.
TryAgainRereads(t) ==
    /\ pc[t] = "try_add"
    /\ TryAdd(t, all_trackers[call[t].tracker][loc[t].i],
              limit[all_trackers[call[t].tracker][loc[t].i]])
    /\ UNCHANGED <<setup, gc_lock, cache>>

\* The while loop comes round after GcMemory returned false: try_add again, with
\* the limit read at the start of the visit (lines 202-203).
TryAgain(t) ==
    /\ pc[t] = "try_add"
    /\ TryAdd(t, all_trackers[call[t].tracker][loc[t].i], loc[t].limit)
    /\ UNCHANGED <<setup, gc_lock, cache>>

\* A slip: one lock for the GcMemory of all trackers.
NoGcAnywhere(tracker) == \A n \in Trackers : gc_lock[n] = NULL

\* std::mutex _gc_lock, line 393: each tracker has its own.
GcLockFree(tracker) == gc_lock[tracker] = NULL

\* GcMemory(max_consumption) takes the tracker's _gc_lock and reads consumption;
\* at or below max_consumption it returns false at once.
GcEnter(t) ==
    /\ pc[t] = "gc"
    /\ LET tracker == all_trackers[call[t].tracker][loc[t].i]
           max == GcTarget(loc[t].limit, loc[t].bytes)
           curr == consumption[tracker]
       IN /\ GcLockFree(tracker)
          /\ IF GcNotNeeded(curr, max)
             THEN /\ Jump(t, "try_add", loc[t])
                  /\ UNCHANGED gc_lock
             ELSE /\ Jump(t, "gc_call", [loc[t] EXCEPT !.curr = curr, !.k = 1])
                  /\ gc_lock' = Set(gc_lock, tracker, t)
    /\ UNCHANGED <<setup, consumption, cache, held, contrib, gcCalls, gcLog>>

\* GcMemory invokes its k-th GcFunction with bytes_to_free; the function gives
\* back r bytes of its cache by calling release(r) on its tracker.
GcCallback(t, r) ==
    /\ pc[t] = "gc_call"
    /\ LET tracker == all_trackers[call[t].tracker][loc[t].i]
           fns == gc_functions[tracker]
           k == loc[t].k
           max == GcTarget(loc[t].limit, loc[t].bytes)
       IN /\ k <= Len(fns)
          /\ r \in 0..cache[fns[k]]
          /\ cache' = [cache EXCEPT ![fns[k]] = @ - r]
          /\ consumption' = AddTo(consumption, CbTracker(fns[k]), ReleaseDelta(r))
          /\ gcLog' = Set(gcLog, t, Append(gcLog[t],
                            [fn |-> fns[k], bytes_to_free |-> BytesToFree(loc[t].curr, max)]))
          /\ gcCalls' = [gcCalls EXCEPT ![t][fns[k]] = Min(@ + 1, 2)]
          /\ Jump(t, "gc_read", loc[t])
    /\ UNCHANGED <<setup, gc_lock, held, contrib>>

\* GcMemory reads consumption again after the callback.
GcReread(t) ==
    /\ pc[t] = "gc_read"
    /\ LET tracker == all_trackers[call[t].tracker][loc[t].i]
       IN Goto(t, "gc_call", [loc[t] EXCEPT !.curr = consumption[tracker], !.k = @ + 1])
    /\ UNCHANGED <<shared, held, contrib>>

\* GcMemory returns after the last callback: true iff max_consumption is still
\* exceeded.  try_consume then rolls back (lines 208-214) or tries again.
GcExit(t) ==
    /\ pc[t] = "gc_call"
    /\ LET all == all_trackers[call[t].tracker]
           tracker == all[loc[t].i]
           max == GcTarget(loc[t].limit, loc[t].bytes)
       IN /\ loc[t].k > Len(gc_functions[tracker])
          /\ gc_lock' = Set(gc_lock, tracker, NULL)
          /\ IF GcFailed(StillOver(loc[t].curr, max))
             THEN Jump(t, "rollback", [loc[t] EXCEPT !.j = Len(all)])
             ELSE Jump(t, "try_add", loc[t])
    /\ gcLog' = Set(gcLog, t, <<>>)
    /\ UNCHANGED <<setup, consumption, cache, held, contrib, gcCalls>>

\* One iteration of the rollback loop, lines 211-213, or its end and return false.
Rollback(t) ==
    /\ pc[t] = "rollback"
    /\ LET all == all_trackers[call[t].tracker]
           j == loc[t].j
       IN IF RollbackContinues(j, loc[t].i)
          THEN /\ Charge(t, all[j], -loc[t].bytes)
               /\ Goto(t, "rollback", [loc[t] EXCEPT !.j = j - 1])
          ELSE /\ ReturnAt(t, "try_consume", call[t].tracker, call[t].bytes, FALSE,
                           all[loc[t].i])
               /\ UNCHANGED <<consumption, contrib>>
    /\ UNCHANGED <<setup, gc_lock, cache, held>>

\* ------------------------------------------------------------------ the counter, step by step
\* RuntimeProfile::HighWaterMarkCounter, the type of MemTracker::_consumption:
\* add is a fetch-add followed by the publication of the new value to the peak,
\* try_add a compare-and-swap loop followed by the same publication.
CIdle == [pc |-> "idle", op |-> "none", delta |-> 0, max |-> 0, old |-> 0, new |-> 0,
          peak |-> 0, held |-> 0]

CNoRet == [op |-> "none", delta |-> 0, max |-> 0, res |-> TRUE, from |-> 0]

CounterInit ==
    /\ current_value = 0
    /\ peak_value = 0
    /\ cthr = [t \in Threads |-> CIdle]
    /\ cret = [t \in Threads |-> CNoRet]
    /\ seen = 0
    /\ tally = 0

\* The trackers stand still while the counter is studied.
trackers == <<limit, consumption_metric, all_trackers, limit_trackers, family,
              gc_functions, calls, pre, peak, publisher>>

\* What the caller may ask for: it takes back only what it has added, and has
\* added at most MaxHeld in all.
MayAdd(t, delta) ==
    /\ delta # 0
    /\ cthr[t].held + delta >= 0
    /\ cthr[t].held + delta <= MaxHeld

\* A slip: the swap is made without the comparison.
CasBlind(cur, old) == TRUE

\* compare_exchange(old, new) succeeds iff the value is still the one read.
CasSucceeds(cur, old) == cur = old

\* A slip: the new value is stored to the peak even when it is lower.
PeakAlwaysStored(new, p) == FALSE

\* The publication to the peak has nothing to do: the peak is already >= new.
PeakCovers(new, p) == new <= p

\* The update of current_value by thread t has taken effect.
Took(t, from, delta) ==
    /\ current_value' = CounterAdd(from, delta)
    /\ seen' = Max(seen, CounterAdd(from, delta))
    /\ tally' = tally + delta
    /\ cthr' = Set(cthr, t, [cthr[t] EXCEPT !.pc = "max_read", !.old = from,
                                            !.new = CounterAdd(from, delta),
                                            !.held = @ + delta])

\* The operation of thread t returns res.
CReturn(t, res, from) ==
    /\ cthr' = Set(cthr, t, [CIdle EXCEPT !.held = cthr[t].held])
    /\ cret' = Set(cret, t, [op |-> cthr[t].op, delta |-> cthr[t].delta, max |-> cthr[t].max,
                              res |-> res, from |-> from])

\* add(delta): the fetch-add.
AddCall(t, delta) ==
    /\ cthr[t].pc = "idle"
    /\ MayAdd(t, delta)
    /\ current_value' = CounterAdd(current_value, delta)
    /\ seen' = Max(seen, CounterAdd(current_value, delta))
    /\ tally' = tally + delta
    /\ cthr' = Set(cthr, t, [cthr[t] EXCEPT !.pc = "max_read", !.op = "add", !.delta = delta,
                                            !.max = 0, !.old = current_value,
                                            !.new = CounterAdd(current_value, delta),
                                            !.held = @ + delta])
    /\ cret' = Set(cret, t, CNoRet)
    /\ UNCHANGED <<peak_value, trackers>>

\* try_add(delta, max) is called.
TryAddCall(t, delta, max) ==
    /\ cthr[t].pc = "idle"
    /\ MayAdd(t, delta)
    /\ cthr' = Set(cthr, t, [cthr[t] EXCEPT !.pc = "try_read", !.op = "try_add",
                                            !.delta = delta, !.max = max])
    /\ cret' = Set(cret, t, CNoRet)
    /\ UNCHANGED <<current_value, peak_value, seen, tally, trackers>>

\* try_add reads the current value: above max with delta, it returns false.
TryAddRead(t) ==
    /\ cthr[t].pc = "try_read"
    /\ IF CounterTryAdd(current_value, cthr[t].delta, cthr[t].max)
       THEN /\ cthr' = Set(cthr, t, [cthr[t] EXCEPT !.pc = "try_cas", !.old = current_value])
            /\ UNCHANGED cret
       ELSE CReturn(t, FALSE, current_value)
    /\ UNCHANGED <<current_value, peak_value, seen, tally, trackers>>

\* try_add's compare-and-swap: it takes effect, or the loop reads again.
TryAddCas(t) ==
    /\ cthr[t].pc = "try_cas"
    /\ IF CasSucceeds(current_value, cthr[t].old)
       THEN Took(t, cthr[t].old, cthr[t].delta)
       ELSE /\ cthr' = Set(cthr, t, [cthr[t] EXCEPT !.pc = "try_read"])
            /\ UNCHANGED <<current_value, seen, tally>>
    /\ UNCHANGED <<peak_value, cret, trackers>>

\* The publication reads the peak.
UpdateMaxRead(t) ==
    /\ cthr[t].pc = "max_read"
    /\ IF PeakCovers(cthr[t].new, peak_value)
       THEN CReturn(t, TRUE, cthr[t].old)
       ELSE /\ cthr' = Set(cthr, t, [cthr[t] EXCEPT !.pc = "max_cas", !.peak = peak_value])
            /\ UNCHANGED cret
    /\ UNCHANGED <<current_value, peak_value, seen, tally, trackers>>

\* The publication's compare-and-swap on the peak.
UpdateMaxCas(t) ==
    /\ cthr[t].pc = "max_cas"
    /\ IF CasSucceeds(peak_value, cthr[t].peak)
       THEN /\ peak_value' = cthr[t].new
            /\ CReturn(t, TRUE, cthr[t].old)
       ELSE /\ cthr' = Set(cthr, t, [cthr[t] EXCEPT !.pc = "max_read"])
            /\ UNCHANGED <<peak_value, cret>>
    /\ UNCHANGED <<current_value, seen, tally, trackers>>

\* ------------------------------------------------------------------ specifications
Args == (0 - MaxBytes)..MaxBytes

CacheTotal == SumOver(cache, Callbacks)

\* The counters, the caches and the metrics as a call finds them.
Snapshot == [consumption |-> consumption, cache |-> cache, metric |-> consumption_metric]

\* The trackers after construction, with the caches charged at the root.
\* No list_mem_usage in progress.
NoListing == [items |-> <<>>, base |-> <<>>, frames |-> <<>>, upper |-> 0]

\* Every tracker constructed and in its parent's list, the children of the root
\* before the leaf.
FamilyBuilt ==
    /\ child_trackers = [n \in Trackers |-> ChildTrackers(n)]
    /\ child_tracker_it = [n \in Trackers |-> IF Parent(n) = NULL THEN "none" ELSE "in"]
    /\ born = ChildTrackers("root") \o ChildTrackers("mid")

\* Only the root constructed.
FamilyUnbuilt ==
    /\ child_trackers = [n \in Trackers |-> <<>>]
    /\ child_tracker_it = [n \in Trackers |-> "none"]
    /\ born = <<>>

\* The named trackers of the process, in the order _update_memory_metrics
\* publishes them (lines 297-317).
Names == <<"process", "query_pool", "load", "tablet_meta", "compaction", "schema_change">>

NameSet == {Names[x] : x \in 1..Len(Names)}

\* The gauges as _install_memory_metrics makes them (line 237): all zero.
NewGauges == [name \in NameSet |-> 0]

\* A SystemMetrics as its constructor leaves it (line 142), no update running,
\* with the trackers env behind the accessors of ExecEnv.
PublisherInit(envs) ==
    /\ exec_env \in envs
    /\ memory_metrics = NewGauges
    /\ update_at = 0
    /\ registry = NULL
    /\ hooked = {}
    /\ metric_groups = {}
    /\ alive = TRUE
    /\ installs = <<>>
    /\ deregistered = 0

\* No named tracker is set in ExecEnv.
NoEnv == [name \in NameSet |-> NULL]

InitCore(limits, fns, caches, metrics) ==
    /\ limit \in limits
    /\ all_trackers = [n \in Trackers |-> AllTrackers(n)]
    /\ limit_trackers = [n \in Trackers |->
                            SelectSeq(all_trackers[n], LAMBDA m : limit[m] >= 0)]
    /\ child_trackers_lock = [n \in Trackers |-> NULL]
    /\ listing = [t \in Threads |-> NoListing]
    /\ peak = [n \in Trackers |-> 0]
    /\ gc_functions \in {[n \in Trackers |-> IF n = "root" THEN f ELSE <<>>] : f \in fns}
    /\ cache \in caches
    /\ \A c \in Callbacks :
          cache[c] > 0 => \E x \in 1..Len(gc_functions["root"]) : gc_functions["root"][x] = c
    /\ limit["root"] >= 0 => CacheTotal <= limit["root"]
    /\ consumption = [n \in Trackers |-> IF n = "root" THEN CacheTotal ELSE 0]
    /\ consumption_metric \in metrics
    /\ gc_lock = [n \in Trackers |-> NULL]
    /\ pc = [t \in Threads |-> "idle"]
    /\ call = [t \in Threads |-> NoCall]
    /\ loc = [t \in Threads |-> NoLoc]
    /\ ret = [t \in Threads |-> NoRet]
    /\ held = [t \in Threads |-> Zero]
    /\ pre = Snapshot
    /\ contrib = [t \in Threads |-> Zero]
    /\ gcCalls = [t \in Threads |-> [c \in Callbacks |-> 0]]
    /\ gcLog = [t \in Threads |-> <<>>]
    /\ CounterInit

InitRest(limits, fns, caches, metrics) ==
    /\ InitCore(limits, fns, caches, metrics)
    /\ PublisherInit({NoEnv})

InitBase(limits, fns, caches, metrics) ==
    /\ FamilyBuilt
    /\ InitRest(limits, fns, caches, metrics)

\* No tracker has a consumption metric.
InitWith(limits, fns, caches) ==
    InitBase(limits, fns, caches, {[n \in Trackers |-> <<>>]})

\* The caches: every GcFunction has one, or only the first.
CachesAll == [Callbacks -> 0..MaxCache]

CachesFirst == {f \in CachesAll : f["gc2"] = 0}

Init == InitWith(Limits({2}, {-1, 1}), {Registered}, CachesFirst)

\* The trackers and the arguments of the calls of concurrent threads: they work
\* on different descendants of the root.
Callees(t) == IF t = "t1" THEN {"leaf"} ELSE {"sib"}

Sizes == 1..MaxBytes

\* Threads calling consume, release and try_consume concurrently.
Next ==
    \E t \in Threads :
        \/ \E n \in Callees(t), b \in Sizes : ConsumeCall(t, n, b) /\ UNCHANGED <<pre, peak>>
        \/ \E n \in Callees(t), b \in Sizes : ReleaseCall(t, n, b) /\ UNCHANGED <<pre, peak>>
        \/ \E n \in Callees(t), b \in Sizes : TryConsumeCall(t, n, b) /\ UNCHANGED <<pre, peak>>
        \/ ConsumeStep(t) /\ UNCHANGED <<pre, peak>>
        \/ ReleaseStep(t) /\ UNCHANGED <<pre, peak>>
        \/ TryVisit(t) /\ UNCHANGED <<pre, peak>>
        \/ TryAgain(t) /\ UNCHANGED <<pre, peak>>
        \/ GcEnter(t) /\ UNCHANGED <<pre, peak>>
        \/ \E r \in 0..MaxCache : GcCallback(t, r) /\ UNCHANGED <<pre, peak>>
        \/ GcReread(t) /\ UNCHANGED <<pre, peak>>
        \/ GcExit(t) /\ UNCHANGED <<pre, peak>>
        \/ Rollback(t) /\ UNCHANGED <<pre, peak>>

Spec == Init /\ [][Next]_vars

\* One thread calling consume, release and try_consume on any tracker with any
\* argument; pre keeps the counters as they were when the call started.
NextSeq ==
    \E t \in {"t1"} :
        \/ \E n \in Trackers, b \in Args : ConsumeCall(t, n, b) /\ pre' = Snapshot /\ UNCHANGED peak
        \/ \E n \in Trackers, b \in Args : ReleaseCall(t, n, b) /\ pre' = Snapshot /\ UNCHANGED peak
        \/ \E n \in Trackers, b \in Args : TryConsumeCall(t, n, b) /\ pre' = Snapshot /\ UNCHANGED peak
        \/ ConsumeStep(t) /\ UNCHANGED <<pre, peak>>
        \/ ReleaseStep(t) /\ UNCHANGED <<pre, peak>>
        \/ TryVisit(t) /\ UNCHANGED <<pre, peak>>
        \/ TryAgain(t) /\ UNCHANGED <<pre, peak>>
        \/ GcEnter(t) /\ UNCHANGED <<pre, peak>>
        \/ \E r \in 0..MaxCache : GcCallback(t, r) /\ UNCHANGED <<pre, peak>>
        \/ GcReread(t) /\ UNCHANGED <<pre, peak>>
        \/ GcExit(t) /\ UNCHANGED <<pre, peak>>
        \/ Rollback(t) /\ UNCHANGED <<pre, peak>>

InitSeq == InitWith(Limits({-1, 2}, {-1, 0, 1}), {<<>>, Registered}, CachesAll)

SpecSeq == InitSeq /\ [][NextSeq]_vars

\* Threads that only reserve and release: try_consume and release on the same
\* tracker or on different descendants of the root.
CalleesReserve(t) == IF t = "t1" THEN {"leaf"} ELSE {"leaf", "sib"}

NextReserve ==
    \E t \in Threads :
        \/ \E n \in CalleesReserve(t), b \in Sizes : ReleaseCall(t, n, b) /\ UNCHANGED <<pre, peak>>
        \/ \E n \in CalleesReserve(t), b \in Sizes : TryConsumeCall(t, n, b) /\ UNCHANGED <<pre, peak>>
        \/ ReleaseStep(t) /\ UNCHANGED <<pre, peak>>
        \/ TryVisit(t) /\ UNCHANGED <<pre, peak>>
        \/ TryAgain(t) /\ UNCHANGED <<pre, peak>>
        \/ GcEnter(t) /\ UNCHANGED <<pre, peak>>
        \/ \E r \in 0..MaxCache : GcCallback(t, r) /\ UNCHANGED <<pre, peak>>
        \/ GcReread(t) /\ UNCHANGED <<pre, peak>>
        \/ GcExit(t) /\ UNCHANGED <<pre, peak>>
        \/ Rollback(t) /\ UNCHANGED <<pre, peak>>

InitReserve == InitWith(Limits({2}, {-1, 0, 1}), {Registered}, CachesFirst)

SpecReserve == InitReserve /\ [][NextReserve]_vars

\* The same threads with a limit at the leaf, where a try_consume fails after
\* two ancestors took the bytes.
InitUndo == InitWith(LimitsAt({2}, {-1, 1}, {0, 1}), {Registered}, CachesFirst)

SpecUndo == InitUndo /\ [][NextReserve]_vars

\* Threads that only charge: balanced consume and release on the leaves.
NextCharge ==
    \E t \in Threads :
        \/ \E n \in {"leaf", "sib"}, b \in Sizes : ConsumeCall(t, n, b) /\ UNCHANGED <<pre, peak>>
        \/ \E n \in {"leaf", "sib"}, b \in Sizes : ReleaseCall(t, n, b) /\ UNCHANGED <<pre, peak>>
        \/ ConsumeStep(t) /\ UNCHANGED <<pre, peak>>
        \/ ReleaseStep(t) /\ UNCHANGED <<pre, peak>>

InitCharge == InitWith(Limits({-1, 2}, {-1}), {Registered}, CachesAll)

SpecCharge == InitCharge /\ [][NextCharge]_vars

\* The same threads under trackers whose limits they can reach and pass.
InitQuery == InitWith(Limits({1, 2}, {-1, 0, 1}), {<<>>}, CachesAll)

SpecQuery == InitQuery /\ [][NextCharge]_vars

\* The same threads under every arrangement of limits at the root and at mid.
InitLimits == InitWith(Limits(-1..MaxBytes, -1..MaxBytes), {<<>>}, CachesAll)

SpecLimits == InitLimits /\ [][NextCharge]_vars

\* The counter of the root, on its own: two threads add to it, take back what
\* they added and try_add against the root's limit, one instruction at a time.
Deltas == Args \ {0}

NextCounter ==
    \E t \in Threads :
        \/ \E d \in Deltas : AddCall(t, d)
        \/ \E d \in Sizes : TryAddCall(t, d, limit["root"])
        \/ TryAddRead(t)
        \/ TryAddCas(t)
        \/ UpdateMaxRead(t)
        \/ UpdateMaxCas(t)

InitCounter == InitWith(Limits({1, 2}, {-1}), {<<>>}, CachesAll)

SpecCounter == InitCounter /\ [][NextCounter]_vars

\* Only try_add, with deltas of either sign.
NextTryAdd ==
    \E t \in Threads :
        \/ \E d \in Deltas : TryAddCall(t, d, limit["root"])
        \/ TryAddRead(t)
        \/ TryAddCas(t)
        \/ UpdateMaxRead(t)
        \/ UpdateMaxCas(t)

SpecTryAdd == InitCounter /\ [][NextTryAdd]_vars

\* set_limit(l) on tracker n, line 299: _limit = l and nothing else.
SetLimit(t, n, l) ==
    /\ pc[t] = "idle"
    /\ l # limit[n]
    /\ limit' = Set(limit, n, l)
    /\ UNCHANGED <<consumption_metric, all_trackers, limit_trackers, family,
                   gc_functions, counter, calls, publisher>>

\* The tracker is in its parent's _child_trackers.
IsChild(n) == \E x \in 1..Len(child_trackers[Parent(n)]) : child_trackers[Parent(n)][x] = n

\* A slip: the lock is kept when the scope of the lock_guard ends.
StillLocked(locks, n) == locks

\* The lock_guard of lines 115, 176 and 382 goes out of scope: the lock is free.
Unlocked(locks, n) == [locks EXCEPT ![n] = NULL]

\* What the child lists have no part in.
wiring == <<limit, consumption_metric, all_trackers, limit_trackers, gc_functions, counter,
            publisher>>

work == <<consumption, gc_lock, cache, held, contrib>>

\* A slip: the erase takes the parent's whole list with it.
EraseAll(list, n) == <<>>

\* _child_trackers.erase(_child_tracker_it), line 117: the tracker's own entry
\* goes, the others stay as they are.
Erase(list, n) == SelectSeq(list, LAMBDA m : m # n)

\* unregister_from_parent() on tracker n, lines 113-116: the call, which takes
\* the parent's _child_trackers_lock.  The caller calls it on a tracker whose
\* _child_tracker_it is its entry in the parent's list.
UnregisterFromParent(t, n) ==
    /\ pc[t] = "idle"
    /\ Parent(n) # NULL
    /\ child_tracker_it[n] = "in"
    /\ child_trackers_lock[Parent(n)] = NULL
    /\ child_trackers_lock' = Set(child_trackers_lock, Parent(n), t)
    /\ Enter(t, "unregister_from_parent", n, 0, "erase", NoLoc)
    /\ UNCHANGED <<wiring, work, child_trackers, child_tracker_it, born, listing>>

\* Lines 117-119: the erase, _child_tracker_it = end(), and the unlock.
UnregisterErase(t) ==
    /\ pc[t] = "erase"
    /\ LET n == call[t].tracker
       IN /\ child_trackers' = [child_trackers EXCEPT ![Parent(n)] = Erase(@, n)]
          /\ child_tracker_it' = Set(child_tracker_it, n, "end")
          /\ child_trackers_lock' = Unlocked(child_trackers_lock, Parent(n))
          /\ Return(t, "unregister_from_parent", n, 0, TRUE)
    /\ UNCHANGED <<wiring, work, born, listing>>

\* The tracker is constructed: the root always, another once it is inserted.
Built(n) == Parent(n) = NULL \/ \E x \in 1..Len(born) : born[x] = n

\* The constructor of tracker n reaches parent->add_child_tracker(this), line
\* 382: it takes the parent's _child_trackers_lock.
AddChildTracker(t, n) ==
    /\ pc[t] = "idle"
    /\ Parent(n) # NULL
    /\ Built(Parent(n)) /\ ~Built(n)
    /\ child_trackers_lock[Parent(n)] = NULL
    /\ child_trackers_lock' = Set(child_trackers_lock, Parent(n), t)
    /\ Enter(t, "add_child_tracker", n, 0, "insert", NoLoc)
    /\ UNCHANGED <<wiring, work, child_trackers, child_tracker_it, born, listing>>

\* Line 383: the tracker goes to the end of the list and keeps the position;
\* then the unlock.
AddChildInsert(t) ==
    /\ pc[t] = "insert"
    /\ LET n == call[t].tracker
       IN /\ child_trackers' = [child_trackers EXCEPT ![Parent(n)] = Append(@, n)]
          /\ child_tracker_it' = Set(child_tracker_it, n, "in")
          /\ born' = Append(born, n)
          /\ child_trackers_lock' = Unlocked(child_trackers_lock, Parent(n))
          /\ Return(t, "add_child_tracker", n, 0, TRUE)
    /\ UNCHANGED <<wiring, work, listing>>

\* ------------------------------------------------------------------ list_mem_usage
\* A slip: the descent goes one level too far.
DeeperOrAt(cur_level, upper_level) == cur_level <= upper_level

\* Line 175: if (cur_level < upper_level).
Deeper(cur_level, upper_level) == cur_level < upper_level

\* Lines 161-171: the SimpleItem of tracker n at level cur_level.
SimpleItem(n, cur_level) ==
    [label |-> n,
     parent_label |-> IF Parent(n) # NULL THEN Parent(n) ELSE "",
     level |-> cur_level,
     limit |-> limit[n],
     cur_consumption |-> consumption[n],
     peak_consumption |-> peak[n]]

\* One activation of list_mem_usage: its tracker, its cur_level, where it
\* stands ("item", "lock", "children") and the child the loop is at.
Frame(n, cur_level) == [node |-> n, level |-> cur_level, at |-> "item", k |-> 0]

\* The activation on top returns: the one below goes on, or the call is over.
ListReturn(t, items) ==
    LET rest == SubSeq(listing[t].frames, 1, Len(listing[t].frames) - 1)
    IN /\ listing' = Set(listing, t, [listing[t] EXCEPT !.items = items, !.frames = rest])
       /\ IF rest = <<>>
          THEN Return(t, "list_mem_usage", call[t].tracker, call[t].bytes, TRUE)
          ELSE UNCHANGED <<pc, call, loc, ret, gcCalls, gcLog>>

\* The top activation goes on at its next step.
ListGoOn(t, frame, pushed) ==
    /\ listing' = Set(listing, t,
                      [listing[t] EXCEPT !.frames =
                          SubSeq(@, 1, Len(@) - 1) \o <<frame>> \o pushed])
    /\ UNCHANGED <<pc, call, loc, ret, gcCalls, gcLog>>

\* A SimpleItem as it is constructed, lines 77-84.
NewItem == [label |-> "", parent_label |-> "", level |-> 0, limit |-> 0,
            cur_consumption |-> 0, peak_consumption |-> 0]

\* The vectors the caller passes: an empty one, or one that holds an item.
Vectors == {<<>>, <<NewItem>>}

\* list_mem_usage(items, cur_level, upper_level) on tracker n: the call.
ListMemUsage(t, n, cur_level, upper_level, items) ==
    /\ pc[t] = "idle"
    /\ Built(n)
    /\ listing[t] = NoListing
    /\ listing' = Set(listing, t, [items |-> items, base |-> items,
                                    frames |-> <<Frame(n, cur_level)>>,
                                    upper |-> upper_level])
    /\ Enter(t, "list_mem_usage", n, cur_level, "list", NoLoc)
    /\ UNCHANGED <<wiring, work, child_trackers, child_trackers_lock, child_tracker_it, born>>

\* The caller is done with the vector it passed and lets go of it.
ListForget(t) ==
    /\ pc[t] = "idle"
    /\ listing[t] # NoListing
    /\ listing' = Set(listing, t, NoListing)
    /\ ret' = Set(ret, t, NoRet)
    /\ UNCHANGED <<wiring, work, child_trackers, child_trackers_lock, child_tracker_it, born,
                   pc, call, loc, gcCalls, gcLog>>

\* Lines 161-175: the tracker's item is appended, and the level decides
\* whether the children follow.
ListItem(t) ==
    /\ pc[t] = "list"
    /\ LET top == listing[t].frames[Len(listing[t].frames)]
           items == Append(listing[t].items, SimpleItem(top.node, top.level))
       IN /\ top.at = "item"
          /\ IF Deeper(top.level, listing[t].upper)
             THEN /\ listing' = Set(listing, t,
                          [listing[t] EXCEPT !.items = items,
                                             !.frames[Len(listing[t].frames)].at = "lock"])
                  /\ UNCHANGED <<pc, call, loc, ret, gcCalls, gcLog>>
             ELSE ListReturn(t, items)
    /\ UNCHANGED <<wiring, work, child_trackers, child_trackers_lock, child_tracker_it, born>>

\* Line 176: the tracker's _child_trackers_lock is taken.
ListLock(t) ==
    /\ pc[t] = "list"
    /\ LET top == listing[t].frames[Len(listing[t].frames)]
       IN /\ top.at = "lock"
          /\ child_trackers_lock[top.node] = NULL
          /\ child_trackers_lock' = Set(child_trackers_lock, top.node, t)
          /\ ListGoOn(t, [top EXCEPT !.at = "children", !.k = 1], <<>>)
    /\ UNCHANGED <<wiring, work, child_trackers, child_tracker_it, born>>

\* Lines 177-180: the loop over _child_trackers calls list_mem_usage on the
\* next child, one level down; after the last child the lock is given back
\* and the activation returns.
ListChildren(t) ==
    /\ pc[t] = "list"
    /\ LET top == listing[t].frames[Len(listing[t].frames)]
           children == child_trackers[top.node]
       IN /\ top.at = "children"
          /\ IF top.k <= Len(children)
             THEN /\ ListGoOn(t, [top EXCEPT !.k = @ + 1],
                              <<Frame(children[top.k], top.level + 1)>>)
                  /\ UNCHANGED child_trackers_lock
             ELSE /\ ListReturn(t, listing[t].items)
                  /\ child_trackers_lock' = Unlocked(child_trackers_lock, top.node)
    /\ UNCHANGED <<wiring, work, child_trackers, child_tracker_it, born>>

\* The limits set_limit is called with.
NewLimits == -1..1

\* One thread charges and reserves on the leaf and on sib, and between its calls
\* limits are set anew and trackers unregister from their parents.  No callback
\* is registered and no other thread releases, so GcMemory never finds room and
\* the while loop of try_consume never comes round.
NextWiring ==
    \E t \in {"t1"} :
        \/ \E n \in {"leaf", "sib"}, b \in Sizes : ConsumeCall(t, n, b) /\ pre' = Snapshot /\ UNCHANGED peak
        \/ \E n \in {"leaf", "sib"}, b \in Sizes : ReleaseCall(t, n, b) /\ pre' = Snapshot /\ UNCHANGED peak
        \/ \E n \in {"leaf", "sib"}, b \in Sizes : TryConsumeCall(t, n, b) /\ pre' = Snapshot /\ UNCHANGED peak
        \/ ConsumeStep(t) /\ UNCHANGED <<pre, peak>>
        \/ ReleaseStep(t) /\ UNCHANGED <<pre, peak>>
        \/ TryVisit(t) /\ UNCHANGED <<pre, peak>>
        \/ GcEnter(t) /\ UNCHANGED <<pre, peak>>
        \/ GcExit(t) /\ UNCHANGED <<pre, peak>>
        \/ Rollback(t) /\ UNCHANGED <<pre, peak>>
        \/ \E n \in {"root", "mid"}, l \in NewLimits : SetLimit(t, n, l) /\ UNCHANGED <<pre, peak>>
        \/ \E n \in Trackers : UnregisterFromParent(t, n) /\ UNCHANGED <<pre, peak>>
        \/ UnregisterErase(t) /\ UNCHANGED <<pre, peak>>

InitWiring == InitWith(Limits({-1, 1}, {-1, 1}), {<<>>}, CachesAll)

SpecWiring == InitWiring /\ [][NextWiring]_vars

\* One thread consumes and releases on the leaf and on sib and moves the
\* tracking of what it holds between a tracker and one of its ancestors.
NextLocal ==
    \E t \in {"t1"} :
        \/ \E n \in {"leaf", "sib"}, b \in Sizes : ConsumeCall(t, n, b) /\ pre' = Snapshot /\ UNCHANGED peak
        \/ \E n \in {"leaf", "sib"}, b \in Sizes : ReleaseCall(t, n, b) /\ pre' = Snapshot /\ UNCHANGED peak
        \/ ConsumeStep(t) /\ UNCHANGED <<pre, peak>>
        \/ ReleaseStep(t) /\ UNCHANGED <<pre, peak>>
        \/ \E n \in Trackers, b \in Sizes : \E end \in Chain(n) :
              ConsumeLocalCall(t, n, b, end) /\ pre' = Snapshot /\ UNCHANGED peak
        \/ \E n \in Trackers, b \in Sizes : \E end \in Chain(n) :
              ReleaseLocalCall(t, n, b, end) /\ pre' = Snapshot /\ UNCHANGED peak
        \/ LocalStep(t) /\ UNCHANGED <<pre, peak>>

InitLocal == InitWith(Limits({-1, 2}, {-1}), {<<>>}, CachesAll)

SpecLocal == InitLocal /\ [][NextLocal]_vars

\* add and try_add publish the new value to the counter's peak (value()).
PeakFollows == peak' = [n \in Trackers |-> Max(peak[n], consumption'[n])]

\* Largest cur_level and upper_level list_mem_usage is called with.
MaxLevel == 2

Levels == 0..MaxLevel

\* The caller holds no vector of items from a list_mem_usage.
NoItems(t) == listing[t] = NoListing

\* One thread consumes and releases on the leaf, unregisters trackers from
\* their parents and lists the memory usage of any tracker; it lets go of the
\* vector of items before its next call.
NextList ==
    \E t \in {"t1"} :
        \/ \E b \in Sizes : NoItems(t) /\ ConsumeCall(t, "leaf", b) /\ UNCHANGED <<pre, peak>>
        \/ \E b \in Sizes : NoItems(t) /\ ReleaseCall(t, "leaf", b) /\ UNCHANGED <<pre, peak>>
        \/ ConsumeStep(t) /\ PeakFollows /\ UNCHANGED pre
        \/ ReleaseStep(t) /\ PeakFollows /\ UNCHANGED pre
        \/ \E n \in Trackers :
              NoItems(t) /\ UnregisterFromParent(t, n) /\ UNCHANGED <<pre, peak>>
        \/ UnregisterErase(t) /\ UNCHANGED <<pre, peak>>
        \/ \E n \in Trackers, cur \in 0..1, upper \in Levels, items \in Vectors :
              ListMemUsage(t, n, cur, upper, items) /\ UNCHANGED <<pre, peak>>
        \/ ListItem(t) /\ UNCHANGED <<pre, peak>>
        \/ ListLock(t) /\ UNCHANGED <<pre, peak>>
        \/ ListChildren(t) /\ UNCHANGED <<pre, peak>>
        \/ ListForget(t) /\ UNCHANGED <<pre, peak>>

InitList == InitWith(Limits({2}, {-1}), {<<>>}, {[c \in Callbacks |-> 0]})

SpecList == InitList /\ [][NextList]_vars

\* Threads construct the trackers below the root and unregister them from
\* their parents, while one of them also lists memory usage.
NextFamily ==
    \E t \in Threads :
        \/ \E n \in Trackers : AddChildTracker(t, n) /\ UNCHANGED <<pre, peak>>
        \/ AddChildInsert(t) /\ UNCHANGED <<pre, peak>>
        \/ \E n \in Trackers : UnregisterFromParent(t, n) /\ UNCHANGED <<pre, peak>>
        \/ UnregisterErase(t) /\ UNCHANGED <<pre, peak>>
        \/ \E n \in Trackers, upper \in Levels :
              t = "t2" /\ ListMemUsage(t, n, 0, upper, <<>>) /\ UNCHANGED <<pre, peak>>
        \/ ListItem(t) /\ UNCHANGED <<pre, peak>>
        \/ ListLock(t) /\ UNCHANGED <<pre, peak>>
        \/ ListChildren(t) /\ UNCHANGED <<pre, peak>>
        \/ ListForget(t) /\ UNCHANGED <<pre, peak>>

InitFamily ==
    /\ FamilyUnbuilt
    /\ InitRest(Limits({-1}, {-1}), {<<>>}, {[c \in Callbacks |-> 0]},
                {[n \in Trackers |-> <<>>]})

SpecFamily == InitFamily /\ [][NextFamily]_vars

\* Threads reserve on the leaf and release, with GcMemory at the root, while
\* one of them also unregisters sib and lists the memory usage below the root.
NextLocks ==
    \E t \in Threads :
        \/ \E b \in Sizes : NoItems(t) /\ TryConsumeCall(t, "leaf", b) /\ UNCHANGED <<pre, peak>>
        \/ NoItems(t) /\ ReleaseCall(t, "leaf", 1) /\ UNCHANGED <<pre, peak>>
        \/ ReleaseStep(t) /\ UNCHANGED <<pre, peak>>
        \/ TryVisit(t) /\ UNCHANGED <<pre, peak>>
        \/ TryAgain(t) /\ UNCHANGED <<pre, peak>>
        \/ GcEnter(t) /\ UNCHANGED <<pre, peak>>
        \/ \E r \in 0..MaxCache : GcCallback(t, r) /\ UNCHANGED <<pre, peak>>
        \/ GcReread(t) /\ UNCHANGED <<pre, peak>>
        \/ GcExit(t) /\ UNCHANGED <<pre, peak>>
        \/ Rollback(t) /\ UNCHANGED <<pre, peak>>
        \/ t = "t2" /\ NoItems(t) /\ UnregisterFromParent(t, "sib") /\ UNCHANGED <<pre, peak>>
        \/ UnregisterErase(t) /\ UNCHANGED <<pre, peak>>
        \/ \E upper \in Levels :
              t = "t2" /\ ListMemUsage(t, "root", 0, upper, <<>>) /\ UNCHANGED <<pre, peak>>
        \/ ListItem(t) /\ UNCHANGED <<pre, peak>>
        \/ ListLock(t) /\ UNCHANGED <<pre, peak>>
        \/ ListChildren(t) /\ UNCHANGED <<pre, peak>>
        \/ ListForget(t) /\ UNCHANGED <<pre, peak>>

InitLocks == InitWith(Limits({2}, {-1}), {Registered}, CachesFirst)

SpecLocks == InitLocks /\ [][NextLocks]_vars

\* The gauge behind the root's _consumption_metric takes a new value.
MetricUpdate(v) ==
    /\ HasMetric("root")
    /\ v # MetricValue(consumption_metric["root"])
    /\ consumption_metric' = Set(consumption_metric, "root", <<v>>)
    /\ UNCHANGED <<limit, all_trackers, limit_trackers, family, gc_functions,
                   counter, calls, publisher>>

\* The values of the gauge: an unsigned number of bytes.
Gauge == 0..MaxMetric

\* The root is the process tracker, with a consumption metric: one thread calls
\* on the root and on the leaf with arguments of any sign while the gauge moves.
\* Without callbacks and other threads try_consume never tries again after
\* GcMemory.
NextMetric ==
    \/ \E t \in {"t1"} :
        \/ \E n \in {"root", "leaf"}, b \in Args : ConsumeCall(t, n, b) /\ pre' = Snapshot /\ UNCHANGED peak
        \/ \E n \in {"root", "leaf"}, b \in Args : ReleaseCall(t, n, b) /\ pre' = Snapshot /\ UNCHANGED peak
        \/ \E n \in {"root", "leaf"}, b \in Args : TryConsumeCall(t, n, b) /\ pre' = Snapshot /\ UNCHANGED peak
        \/ ConsumeStep(t) /\ UNCHANGED <<pre, peak>>
        \/ ReleaseStep(t) /\ UNCHANGED <<pre, peak>>
        \/ TryVisit(t) /\ UNCHANGED <<pre, peak>>
        \/ GcEnter(t) /\ UNCHANGED <<pre, peak>>
        \/ GcExit(t) /\ UNCHANGED <<pre, peak>>
        \/ Rollback(t) /\ UNCHANGED <<pre, peak>>
    \/ \E v \in Gauge : MetricUpdate(v) /\ UNCHANGED <<pre, peak>>

Metrics == {[n \in Trackers |-> IF n = "root" THEN <<v>> ELSE <<>>] : v \in Gauge}

InitMetric == InitBase(Limits({-1, 2}, {-1, 1}), {<<>>}, CachesAll, Metrics)

SpecMetric == InitMetric /\ [][NextMetric]_vars

\* The same tree under two threads: both consume and release on the leaf, t1
\* also reserves there, and t2 also calls on the root, which refreshes it.
\* Bytes are released one at a time.
CalleesProcess(t) == IF t = "t1" THEN {"leaf"} ELSE {"root", "leaf"}

NextProcess ==
    \/ \E t \in Threads :
        \/ \E n \in CalleesProcess(t), b \in Sizes : ConsumeCall(t, n, b) /\ UNCHANGED <<pre, peak>>
        \/ \E n \in CalleesProcess(t) : ReleaseCall(t, n, 1) /\ UNCHANGED <<pre, peak>>
        \/ ConsumeStep(t) /\ UNCHANGED <<pre, peak>>
        \/ ReleaseStep(t) /\ UNCHANGED <<pre, peak>>
    \/ \E t \in {"t1"} :
        \/ \E n \in CalleesProcess(t), b \in Sizes : TryConsumeCall(t, n, b) /\ UNCHANGED <<pre, peak>>
        \/ TryVisit(t) /\ UNCHANGED <<pre, peak>>
        \/ TryAgain(t) /\ UNCHANGED <<pre, peak>>
        \/ GcEnter(t) /\ UNCHANGED <<pre, peak>>
        \/ GcExit(t) /\ UNCHANGED <<pre, peak>>
        \/ Rollback(t) /\ UNCHANGED <<pre, peak>>
    \/ \E v \in Gauge : MetricUpdate(v) /\ UNCHANGED <<pre, peak>>

InitProcess == InitBase(Limits({2}, {1}), {<<>>}, CachesAll, Metrics)

SpecProcess == InitProcess /\ [][NextProcess]_vars

\* t1 consumes and releases on the leaf while t2 reserves and releases there,
\* with GcMemory at the root, and lists the memory usage below the root.
NextFree ==
    \E t \in Threads :
        \/ t = "t1" /\ ConsumeCall(t, "leaf", 1) /\ UNCHANGED <<pre, peak>>
        \/ NoItems(t) /\ ReleaseCall(t, "leaf", 1) /\ UNCHANGED <<pre, peak>>
        \/ \E b \in Sizes : t = "t2" /\ NoItems(t) /\ TryConsumeCall(t, "leaf", b) /\ UNCHANGED <<pre, peak>>
        \/ ConsumeStep(t) /\ UNCHANGED <<pre, peak>>
        \/ ReleaseStep(t) /\ UNCHANGED <<pre, peak>>
        \/ TryVisit(t) /\ UNCHANGED <<pre, peak>>
        \/ TryAgain(t) /\ UNCHANGED <<pre, peak>>
        \/ GcEnter(t) /\ UNCHANGED <<pre, peak>>
        \/ \E r \in 0..MaxCache : GcCallback(t, r) /\ UNCHANGED <<pre, peak>>
        \/ GcReread(t) /\ UNCHANGED <<pre, peak>>
        \/ GcExit(t) /\ UNCHANGED <<pre, peak>>
        \/ Rollback(t) /\ UNCHANGED <<pre, peak>>
        \/ \E upper \in Levels :
              t = "t2" /\ ListMemUsage(t, "root", 0, upper, <<>>) /\ UNCHANGED <<pre, peak>>
        \/ ListItem(t) /\ UNCHANGED <<pre, peak>>
        \/ ListLock(t) /\ UNCHANGED <<pre, peak>>
        \/ ListChildren(t) /\ UNCHANGED <<pre, peak>>
        \/ ListForget(t) /\ UNCHANGED <<pre, peak>>

SpecFree == InitLocks /\ [][NextFree]_vars

\* The thread's last call did not stop at an assertion.
NotStopped(t) == ret[t].res

\* One thread consumes and releases on the leaf and on sib and calls
\* consume_local and release_local with any tracker as end_tracker, an ancestor
\* or not, under trackers with and without limits.  After a failed assertion
\* it makes no further call.
NextAncestor ==
    \E t \in {"t1"} :
        \/ \E n \in {"leaf", "sib"}, b \in Sizes :
              NotStopped(t) /\ ConsumeCall(t, n, b) /\ pre' = Snapshot /\ UNCHANGED peak
        \/ \E n \in {"leaf", "sib"}, b \in Sizes :
              NotStopped(t) /\ ReleaseCall(t, n, b) /\ pre' = Snapshot /\ UNCHANGED peak
        \/ ConsumeStep(t) /\ UNCHANGED <<pre, peak>>
        \/ ReleaseStep(t) /\ UNCHANGED <<pre, peak>>
        \/ \E n, end \in Trackers, b \in Sizes :
              NotStopped(t) /\ ConsumeLocalCall(t, n, b, end) /\ pre' = Snapshot /\ UNCHANGED peak
        \/ \E n, end \in Trackers, b \in Sizes :
              NotStopped(t) /\ ReleaseLocalCall(t, n, b, end) /\ pre' = Snapshot /\ UNCHANGED peak
        \/ LocalStep(t) /\ UNCHANGED <<pre, peak>>

InitAncestor == InitWith(Limits({-1, 2}, {-1, 1}), {<<>>}, CachesAll)

SpecAncestor == InitAncestor /\ [][NextAncestor]_vars

\* t1 reserves on the leaf and releases while t2 consumes and releases on sib,
\* under a limit at the root with GcFunctions, and with or without one at mid.
NextLive ==
    \E t \in Threads :
        \/ \E b \in Sizes : t = "t1" /\ TryConsumeCall(t, "leaf", b) /\ UNCHANGED <<pre, peak>>
        \/ t = "t1" /\ ReleaseCall(t, "leaf", 1) /\ UNCHANGED <<pre, peak>>
        \/ t = "t2" /\ ConsumeCall(t, "sib", 1) /\ UNCHANGED <<pre, peak>>
        \/ t = "t2" /\ ReleaseCall(t, "sib", 1) /\ UNCHANGED <<pre, peak>>
        \/ ConsumeStep(t) /\ UNCHANGED <<pre, peak>>
        \/ ReleaseStep(t) /\ UNCHANGED <<pre, peak>>
        \/ TryVisit(t) /\ UNCHANGED <<pre, peak>>
        \/ TryAgain(t) /\ UNCHANGED <<pre, peak>>
        \/ GcEnter(t) /\ UNCHANGED <<pre, peak>>
        \/ \E r \in 0..MaxCache : GcCallback(t, r) /\ UNCHANGED <<pre, peak>>
        \/ GcReread(t) /\ UNCHANGED <<pre, peak>>
        \/ GcExit(t) /\ UNCHANGED <<pre, peak>>
        \/ Rollback(t) /\ UNCHANGED <<pre, peak>>

\* The next step of the call thread t is in: a thread inside a call is
\* scheduled again, and a GcFunction that is invoked returns.
Progress(t) ==
    /\ \/ ConsumeStep(t)
       \/ ReleaseStep(t)
       \/ TryVisit(t)
       \/ TryAgain(t)
       \/ GcEnter(t)
       \/ \E r \in 0..MaxCache : GcCallback(t, r)
       \/ GcReread(t)
       \/ GcExit(t)
       \/ Rollback(t)
    /\ UNCHANGED <<pre, peak>>

InitLive == InitWith(Limits({2}, {-1, 1}), {Registered}, CachesFirst)

SpecLive ==
    /\ InitLive
    /\ [][NextLive]_vars
    /\ \A t \in Threads : WF_vars(Progress(t))

\* Every tracker but sib constructed and in its parent's list.
FamilyWithoutSib ==
    /\ child_trackers = [n \in Trackers |-> SelectSeq(ChildTrackers(n), LAMBDA m : m # "sib")]
    /\ child_tracker_it = [n \in Trackers |-> IF n \in {"mid", "leaf"} THEN "in" ELSE "none"]
    /\ born = <<"mid", "leaf">>

\* Both threads reserve on the leaf, with GcMemory at the root; t1 also
\* constructs sib under the root and unregisters it, and t2 lists the memory
\* usage below the root.
NextTangle ==
    \E t \in Threads :
        \/ \E b \in Sizes : NoItems(t) /\ TryConsumeCall(t, "leaf", b) /\ UNCHANGED <<pre, peak>>
        \/ TryVisit(t) /\ UNCHANGED <<pre, peak>>
        \/ TryAgain(t) /\ UNCHANGED <<pre, peak>>
        \/ GcEnter(t) /\ UNCHANGED <<pre, peak>>
        \/ \E r \in 0..MaxCache : GcCallback(t, r) /\ UNCHANGED <<pre, peak>>
        \/ GcReread(t) /\ UNCHANGED <<pre, peak>>
        \/ GcExit(t) /\ UNCHANGED <<pre, peak>>
        \/ Rollback(t) /\ UNCHANGED <<pre, peak>>
        \/ t = "t1" /\ AddChildTracker(t, "sib") /\ UNCHANGED <<pre, peak>>
        \/ AddChildInsert(t) /\ UNCHANGED <<pre, peak>>
        \/ t = "t1" /\ UnregisterFromParent(t, "sib") /\ UNCHANGED <<pre, peak>>
        \/ UnregisterErase(t) /\ UNCHANGED <<pre, peak>>
        \/ \E upper \in Levels :
              t = "t2" /\ ListMemUsage(t, "root", 0, upper, <<>>) /\ UNCHANGED <<pre, peak>>
        \/ ListItem(t) /\ UNCHANGED <<pre, peak>>
        \/ ListLock(t) /\ UNCHANGED <<pre, peak>>
        \/ ListChildren(t) /\ UNCHANGED <<pre, peak>>
        \/ ListForget(t) /\ UNCHANGED <<pre, peak>>

InitTangle ==
    /\ FamilyWithoutSib
    /\ InitRest(Limits({2}, {-1}), {Registered}, CachesFirst, {[n \in Trackers |-> <<>>]})

SpecTangle == InitTangle /\ [][NextTangle]_vars

\* t1 reserves on the leaf and releases while t2 sets the limits of the root
\* and of mid anew, at any moment of t1's calls.
NextGate ==
    \E t \in Threads :
        \/ \E b \in Sizes : t = "t1" /\ TryConsumeCall(t, "leaf", b) /\ UNCHANGED <<pre, peak>>
        \/ t = "t1" /\ ReleaseCall(t, "leaf", 1) /\ UNCHANGED <<pre, peak>>
        \/ ReleaseStep(t) /\ UNCHANGED <<pre, peak>>
        \/ TryVisit(t) /\ UNCHANGED <<pre, peak>>
        \/ TryAgain(t) /\ UNCHANGED <<pre, peak>>
        \/ GcEnter(t) /\ UNCHANGED <<pre, peak>>
        \/ \E r \in 0..MaxCache : GcCallback(t, r) /\ UNCHANGED <<pre, peak>>
        \/ GcReread(t) /\ UNCHANGED <<pre, peak>>
        \/ GcExit(t) /\ UNCHANGED <<pre, peak>>
        \/ Rollback(t) /\ UNCHANGED <<pre, peak>>
        \/ \E n \in {"root", "mid"}, l \in NewLimits :
              t = "t2" /\ SetLimit(t, n, l) /\ UNCHANGED <<pre, peak>>

InitGate == InitWith(Limits({-1, 2}, {-1}), {Registered}, CachesFirst)

SpecGate == InitGate /\ [][NextGate]_vars

\* ------------------------------------------------------------------ system metrics
\* Largest number of install calls on one SystemMetrics.
MaxInstalls == 2

\* The registries install is called with.
Registries == {"r1", "r2"}

\* The metric groups install registers (lines 167-172).
Groups == {"cpu", "memory", "disk", "net", "fd", "snmp"}

\* What the SystemMetrics has no part in: the trackers and the calls on them.
tracked == <<limit, consumption_metric, all_trackers, limit_trackers, family,
             gc_functions, calls, counter>>

\* SystemMetrics::install(registry, ...), lines 161-174.  ok is what
\* registry->register_hook returns.  It is called on a SystemMetrics that has
\* no registry yet (line 163).
Install(r, ok) ==
    /\ alive
    /\ registry = NULL
    /\ update_at = 0
    /\ Len(installs) < MaxInstalls
    /\ installs' = Append(installs, ok)
    /\ IF ~ok
       THEN UNCHANGED <<registry, hooked, metric_groups, memory_metrics>>
       ELSE /\ hooked' = hooked \cup {r}
            /\ metric_groups' = Groups
            /\ memory_metrics' = NewGauges
            /\ registry' = r
    /\ UNCHANGED <<exec_env, update_at, alive, deregistered, tracked>>

\* A slip: the destructor deregisters whether or not install recorded a registry.
AlwaysInstalled == TRUE

\* ~SystemMetrics line 146: _registry != nullptr.
Installed == registry # NULL

\* SystemMetrics::~SystemMetrics, lines 144-159.  The registry runs no hook of
\* an object while it is destroyed.
Destroy ==
    /\ alive
    /\ update_at = 0
    /\ alive' = FALSE
    /\ IF Installed
       THEN /\ hooked' = hooked \ {registry}
            /\ deregistered' = deregistered + 1
            /\ registry' = NULL
       ELSE UNCHANGED <<hooked, deregistered, registry>>
    /\ UNCHANGED <<exec_env, memory_metrics, update_at, metric_groups, installs, tracked>>

\* A registry that holds the hook invokes it: update() comes to
\* _update_memory_metrics (lines 176-178).
UpdateStart ==
    /\ alive
    /\ hooked # {}
    /\ update_at = 0
    /\ update_at' = 1
    /\ UNCHANGED <<exec_env, memory_metrics, registry, hooked, metric_groups, alive,
                   installs, deregistered, tracked>>

\* A slip: the tracker's limit is published.
PublishedLimit(name) == limit[exec_env[name]]

\* tracker->consumption(), mem_tracker.h line 319: what set_value is given.
Published(name) == consumption[exec_env[name]]

\* One of the six if statements of lines 297-317: the gauge of the next named
\* tracker is set to its consumption() if the tracker is not null.
UpdateMemoryMetrics ==
    /\ update_at \in 1..Len(Names)
    /\ LET name == Names[update_at]
       IN IF exec_env[name] # NULL
          THEN memory_metrics' = [memory_metrics EXCEPT ![name] = Published(name)]
          ELSE UNCHANGED memory_metrics
    /\ update_at' = IF update_at = Len(Names) THEN 0 ELSE update_at + 1
    /\ UNCHANGED <<exec_env, registry, hooked, metric_groups, alive, installs,
                   deregistered, tracked>>

\* The named trackers that exist: the process tracker is the root, the query
\* pool and the load tracker are below it; some are not set.
Envs ==
    {e \in [NameSet -> Trackers \cup {NULL}] :
        /\ e["process"] = "root"
        /\ e["query_pool"] = "mid"
        /\ e["load"] \in {"sib", NULL}
        /\ e["tablet_meta"] = NULL
        /\ e["compaction"] = NULL
        /\ e["schema_change"] = NULL}

\* A thread consumes and releases on the leaf and on sib while a SystemMetrics
\* is installed, its update hook runs, and it is destroyed.
NextSystem ==
    \/ \E t \in {"t1"} :
        \/ \E n \in {"leaf", "sib"} : ConsumeCall(t, n, 1) /\ UNCHANGED <<pre, peak>>
        \/ \E n \in {"leaf", "sib"} : ReleaseCall(t, n, 1) /\ UNCHANGED <<pre, peak>>
        \/ ConsumeStep(t) /\ UNCHANGED <<pre, peak>>
        \/ ReleaseStep(t) /\ UNCHANGED <<pre, peak>>
    \/ \E r \in Registries, ok \in BOOLEAN : Install(r, ok) /\ UNCHANGED <<pre, peak>>
    \/ Destroy /\ UNCHANGED <<pre, peak>>
    \/ UpdateStart /\ UNCHANGED <<pre, peak>>
    \/ UpdateMemoryMetrics /\ UNCHANGED <<pre, peak>>

InitSystem ==
    /\ FamilyBuilt
    /\ InitCore(Limits({-1}, {-1}), {<<>>}, {[c \in Callbacks |-> 0]}, {[n \in Trackers |-> <<>>]})
    /\ PublisherInit(Envs)

SpecSystem == InitSystem /\ [][NextSystem]_vars

\* ------------------------------------------------------------------ properties
\* No thread is inside a call.
Quiescent == \A t \in Threads : pc[t] = "idle"

\* No thread but t has made any call so far.
Alone(t) == \A u \in Threads \ {t} : pc[u] = "idle" /\ ret[u] = NoRet

\* The change of the counters that charges b at tracker n and at its ancestors.
ChainCharge(n, b) == [m \in Trackers |-> IF m \in Chain(n) THEN b ELSE 0]

Plus(f, g) == [m \in Trackers |-> f[m] + g[m]]

\* The bytes charged at tracker n or below it and not given back: what the
\* threads hold and what the caches hold.
Expected(n) ==
    SumOver([c \in Callbacks |-> IF n \in Chain(CbTracker(c)) THEN cache[c] ELSE 0], Callbacks)
    + SumOver([t \in Threads |->
                 SumOver([m \in Trackers |-> IF n \in Chain(m) THEN held[t][m] ELSE 0],
                         Trackers)], Threads)

\* The bytes the GcFunctions have released at tracker n or below it since the
\* call of the lone thread started.
Freed(n) ==
    SumOver([c \in Callbacks |->
               IF n \in Chain(CbTracker(c)) THEN pre.cache[c] - cache[c] ELSE 0], Callbacks)

\* The tracker the call of thread t is working on: _all_trackers[i].
Visited(t) == all_trackers[call[t].tracker][loc[t].i]

InGc(t) == pc[t] \in {"gc_call", "gc_read"}

InTryConsume(t) == call[t].op = "try_consume"

\* A slip: a tracker standing exactly at its limit counts as exceeded.
LimitExceededOrAt(n) == limit[n] >= 0 /\ limit[n] <= consumption[n]

\* MemTracker::limit_exceeded, line 297.
LimitExceeded(n) == limit[n] >= 0 /\ limit[n] < consumption[n]

\* MemTracker::any_limit_exceeded, lines 255-263.
AnyLimitExceeded(n) ==
    \E x \in 1..Len(limit_trackers[n]) : LimitExceeded(limit_trackers[n][x])

\* std::numeric_limits<int64_t>::max(), line 280: the largest integer there is.
Int64Max == 2147483647

\* Line 283: mem_left = limit() - consumption().
MemLeft(l, c) == l - c

\* The loop of spare_capacity, lines 281-285, over the trackers lt[x..], with
\* counters c.
RECURSIVE SpareLoop(_, _, _, _)
SpareLoop(lt, x, c, result) ==
    IF x > Len(lt) THEN result
    ELSE SpareLoop(lt, x + 1, c, Min(result, MemLeft(limit[lt[x]], c[lt[x]])))

\* MemTracker::spare_capacity, lines 279-287, on the counters c.
SpareCapacityAt(c, n) == SpareLoop(limit_trackers[n], 1, c, Int64Max)

SpareCapacity(n) == SpareCapacityAt(consumption, n)

\* A slip: the limit of the nearest limited tracker, not the lowest.
NearestLimit(n) ==
    IF limit_trackers[n] = <<>> THEN -1 ELSE limit[limit_trackers[n][1]]

\* The loop of lowest_limit, lines 312-315, over the trackers lt[x..].
RECURSIVE LowestLoop(_, _, _)
LowestLoop(lt, x, v) ==
    IF x > Len(lt) THEN v
    ELSE LowestLoop(lt, x + 1, Min(v, limit[lt[x]]))

\* MemTracker::lowest_limit, lines 309-317.
LowestLimit(n) ==
    IF limit_trackers[n] = <<>> THEN -1 ELSE LowestLoop(limit_trackers[n], 1, Int64Max)

\* MemTracker::find_limit_exceeded_tracker, lines 266-274: the first tracker of
\* _limit_trackers whose limit is exceeded, or NULL.
FindLimitExceededTracker(n) ==
    LET lt == limit_trackers[n]
        hits == {x \in 1..Len(lt) : LimitExceeded(lt[x])}
    IN IF hits = {} THEN NULL
       ELSE lt[CHOOSE x \in hits : \A y \in hits : x <= y]

NonIncreasing(log) ==
    \A x, y \in 1..Len(log) : x < y => log[x].bytes_to_free >= log[y].bytes_to_free

\* C1: a try_consume(b), b > 0, that has returned true has added exactly b to
\* every tracker of its chain and nothing elsewhere; one that has returned false
\* has undone every add it made, so its net contribution is zero everywhere; and
\* when no call is in progress every counter equals the bytes held below it.
C1_AllOrNothing ==
    /\ \A t \in Threads :
         (ret[t].op = "try_consume" /\ ret[t].bytes > 0) =>
            contrib[t] = IF ret[t].res THEN ChainCharge(ret[t].tracker, ret[t].bytes)
                         ELSE Zero
    /\ Quiescent => \A n \in Trackers : consumption[n] = Expected(n)

\* A try_consume on the leaf failed at mid, after it had charged the root, while
\* the other thread was inside a call of its own.
C1_Witness ==
    \E t \in Threads :
        /\ ret[t].op = "try_consume" /\ ~ret[t].res /\ ret[t].at = "mid"
        /\ \E u \in Threads \ {t} : pc[u] # "idle"

\* C2: with only try_consume and release, no tracker with a limit ever has a
\* consumption above its limit.
C2_NoOvershoot ==
    \A n \in Trackers : limit[n] >= 0 => consumption[n] <= limit[n]

\* Two try_consume calls on different descendants are in progress and the root
\* is filled to its limit.
C2_Witness ==
    /\ InTryConsume("t1") /\ InTryConsume("t2")
    /\ call["t1"].tracker # call["t2"].tracker
    /\ consumption["root"] = limit["root"]
    /\ \E t \in Threads : pc[t] = "gc"

\* C3 as stated: after a try_consume that returned false and ran the GC
\* callbacks, every counter has the value it had before the call.
C3_DeniedChangesNothing ==
    \A t \in Threads :
        (ret[t].op = "try_consume" /\ ~ret[t].res /\ ret[t].gc) =>
            consumption = pre.consumption

\* C3 amended: after a try_consume of a lone thread that returned false and ran
\* the GC callbacks, every counter has the value it had before the call less the
\* bytes the callbacks released; the call itself has contributed nothing.
C3_DeniedLeavesNoCharge ==
    \A t \in Threads :
        (ret[t].op = "try_consume" /\ ~ret[t].res /\ ret[t].gc) =>
            /\ \A n \in Trackers : consumption[n] = pre.consumption[n] - Freed(n)
            /\ contrib[t] = Zero

\* A try_consume returned false although its GC callbacks had released memory.
C3_Witness ==
    \E t \in Threads :
        /\ ret[t].op = "try_consume" /\ ~ret[t].res /\ ret[t].gc
        /\ Freed("root") > 0

\* C4: when all consume/release pairs have retired, and whenever no call is in
\* progress, every counter equals the bytes still held below it: the value it
\* had before the sequence when nothing is held.
C4_Balance ==
    Quiescent => \A n \in Trackers : consumption[n] = Expected(n)

\* Both threads have released what they had consumed, on different leaves.
C4_Witness ==
    /\ Quiescent
    /\ \A t \in Threads : ret[t].op = "release" /\ HeldTotal(t) = 0
    /\ ret["t1"].tracker # ret["t2"].tracker

\* The call try_consume(b) on n fits: no limit of the chain would be crossed.
Fits(n, b) ==
    \A m \in Chain(n) : limit[m] >= 0 => pre.consumption[m] + b <= limit[m]

NoGcFunctions == \A n \in Trackers : gc_functions[n] = <<>>

\* C5: without GC callbacks a lone try_consume(b), b > 0, returns true iff
\* consumption + b <= limit at every limited tracker of the chain; on true every
\* tracker of the chain has grown by b, on false no counter has changed.
C5_TryConsumeIffFits ==
    \A t \in Threads :
        (ret[t].op = "try_consume" /\ ret[t].bytes > 0 /\ NoGcFunctions) =>
            /\ ret[t].res <=> Fits(ret[t].tracker, ret[t].bytes)
            /\ consumption =
                 IF ret[t].res
                 THEN Plus(pre.consumption, ChainCharge(ret[t].tracker, ret[t].bytes))
                 ELSE pre.consumption

\* leaf.try_consume failed at mid after the limited root had accepted the charge.
C5_Witness ==
    \E t \in Threads :
        /\ ret[t].op = "try_consume" /\ ~ret[t].res /\ NoGcFunctions
        /\ ret[t].tracker = "leaf" /\ ret[t].at = "mid"
        /\ limit["root"] >= 0

\* C6: when try_add fails at a limited tracker T in a lone try_consume(b), the
\* call goes on to try_add again iff consumption(T) <= limit(T) - b after GC and
\* rolls back iff it is still above; a call that ran T's callbacks succeeded at T
\* iff the post-GC consumption was <= limit(T) - b, ends at the post-GC value
\* plus b when it returns true, and returns false when the callbacks freed
\* nothing.
C6_GcThenRetry ==
    \A t \in Threads :
        /\ pc[t] = "try_add" =>
              consumption[Visited(t)] <= limit[Visited(t)] - loc[t].bytes
        /\ pc[t] = "rollback" =>
              consumption[Visited(t)] > limit[Visited(t)] - loc[t].bytes
        /\ (ret[t].op = "try_consume" /\ ret[t].gc) =>
              \A T \in Chain(ret[t].tracker) :
                  gc_functions[T] # <<>> =>
                      LET post == pre.consumption[T] - Freed(T)
                      IN /\ ret[t].at # T <=> post <= limit[T] - ret[t].bytes
                         /\ ret[t].res => consumption[T] = post + ret[t].bytes
                         /\ Freed(T) = 0 => ~ret[t].res /\ ret[t].at = T

\* The callbacks released as much as the call asked for: try_consume returned
\* true and the root ends where it started.
C6_Witness ==
    \E t \in Threads :
        /\ ret[t].op = "try_consume" /\ ret[t].res /\ ret[t].gc
        /\ Freed("root") = ret[t].bytes
        /\ consumption["root"] = pre.consumption["root"]

\* C7 as stated: a call invokes each GC callback at most once, in every
\* interleaving.
C7_AtMostOncePerCall ==
    \A t \in Threads, c \in Callbacks : gcCalls[t][c] <= 1

\* C7 amended: one GcMemory invocation invokes each GC callback at most once, and
\* a call invokes each at most once as long as no other thread has made a call.
C7_AtMostOncePerRound ==
    \A t \in Threads :
        /\ \A x, y \in 1..Len(gcLog[t]) : x # y => gcLog[t][x].fn # gcLog[t][y].fn
        /\ Alone(t) => \A c \in Callbacks : gcCalls[t][c] <= 1

\* A lone try_consume has run both callbacks of the root, once each.
C7_Witness ==
    \E t \in Threads :
        /\ Alone(t) /\ InTryConsume(t) /\ pc[t] = "gc_read"
        /\ \A c \in Callbacks : gcCalls[t][c] = 1

\* The callbacks GcMemory has invoked so far are the first of _gc_functions, in
\* their order.
InOrder(t) ==
    InGc(t) =>
        /\ Len(gcLog[t]) = IF pc[t] = "gc_read" THEN loc[t].k ELSE loc[t].k - 1
        /\ \A x \in 1..Len(gcLog[t]) : gcLog[t][x].fn = gc_functions[Visited(t)][x]

\* The bytes_to_free of the callback just invoked is the consumption GcMemory
\* read last, less max_consumption = limit - bytes.
ToFreeIsOverage(t) ==
    pc[t] = "gc_read" =>
        gcLog[t][Len(gcLog[t])].bytes_to_free
            = loc[t].curr - (limit[Visited(t)] - call[t].bytes)

\* C8 as stated: within one GcMemory invocation the callbacks run in
\* registration order with non-increasing bytes_to_free, also while other
\* threads consume or release.
C8_NonIncreasingAlways ==
    \A t \in Threads : InOrder(t) /\ ToFreeIsOverage(t) /\ NonIncreasing(gcLog[t])

\* C8 amended: within one GcMemory invocation the callbacks run in registration
\* order, each with the consumption read last less max_consumption, and these
\* values are non-increasing as long as no other thread has made a call.
C8_NonIncreasingAlone ==
    \A t \in Threads :
        InOrder(t) /\ ToFreeIsOverage(t) /\ (Alone(t) => NonIncreasing(gcLog[t]))

\* A lone GcMemory has invoked both callbacks, the second with less to free.
C8_Witness ==
    \E t \in Threads :
        /\ Alone(t) /\ pc[t] = "gc_read" /\ Len(gcLog[t]) = 2
        /\ gcLog[t][2].bytes_to_free < gcLog[t][1].bytes_to_free

\* C9: a consume(b), b > 0, of a lone thread has added exactly b to every
\* tracker of the chain and nothing to any other tracker, whatever the limits;
\* where that crossed a limit, limit_exceeded is true on that tracker and
\* any_limit_exceeded on the tracker the call was made on.
C9_ConsumeUnconditional ==
    \A t \in Threads :
        (ret[t].op = "consume" /\ ret[t].bytes > 0) =>
            /\ ret[t].res
            /\ consumption = Plus(pre.consumption, ChainCharge(ret[t].tracker, ret[t].bytes))
            /\ \A m \in Chain(ret[t].tracker) :
                  (limit[m] >= 0 /\ pre.consumption[m] + ret[t].bytes > limit[m]) =>
                      LimitExceeded(m) /\ AnyLimitExceeded(ret[t].tracker)

\* A consume on the leaf has pushed the limited mid above its limit.
C9_Witness ==
    \E t \in Threads :
        /\ ret[t].op = "consume" /\ ret[t].bytes > 0 /\ ret[t].tracker = "leaf"
        /\ pre.consumption["mid"] <= limit["mid"]
        /\ consumption["mid"] > limit["mid"] /\ limit["mid"] >= 0

\* C10: consume(x) of a lone thread changes the chain's counters by x and
\* release(x) by -x, for every x, negative, zero or positive: consume(0) and
\* release(0) change nothing, consume(-b) does what release(b) does and
\* release(-b) what consume(b) does.
C10_SignedArguments ==
    \A t \in Threads :
        ret[t].op \in {"consume", "release"} =>
            consumption =
                Plus(pre.consumption,
                     ChainCharge(ret[t].tracker,
                                 IF ret[t].op = "consume" THEN ret[t].bytes
                                 ELSE 0 - ret[t].bytes))

\* A consume with a negative argument has lowered the counters.
C10_Witness ==
    \E t \in Threads :
        /\ ret[t].op = "consume" /\ ret[t].bytes < 0
        /\ consumption["root"] = pre.consumption["root"] + ret[t].bytes

\* C11: a consume(b) or release(b), b # 0, on the root with a consumption metric
\* sets the root's counter to the value the metric has at the call, whatever b
\* is, and changes no other counter.
C11_MetricRootRefresh ==
    (/\ Alone("t1")
     /\ ret["t1"].op \in {"consume", "release"}
     /\ ret["t1"].tracker = "root"
     /\ ret["t1"].bytes # 0) =>
        consumption = [pre.consumption EXCEPT !["root"] = MetricValue(pre.metric["root"])]

\* A consume on the root has replaced a tally that differed from the metric, and
\* the result is not the tally plus the argument.
C11_Witness ==
    /\ Alone("t1")
    /\ ret["t1"].op = "consume" /\ ret["t1"].tracker = "root" /\ ret["t1"].bytes > 0
    /\ pre.consumption["root"] # MetricValue(pre.metric["root"])
    /\ pre.consumption["root"] + ret["t1"].bytes # MetricValue(pre.metric["root"])
    /\ consumption["root"] = MetricValue(pre.metric["root"])

\* No thread is inside an add or a try_add on the counter.
CQuiescent == \A t \in Threads : cthr[t].pc = "idle"

\* A slip: peak_consumption returns the current value.
PeakIsCurrent == current_value

\* MemTracker::peak_consumption, line 324: _consumption->value().
PeakConsumption == peak_value

\* MemTracker::consumption, line 319: _consumption->current_value().
Consumption == current_value

\* C12: peak_consumption never decreases across a step, and when no add or
\* try_add is in progress it is >= every value consumption has taken.
C12_PeakMonotonic ==
    /\ [][PeakConsumption' >= PeakConsumption]_vars
    /\ [](CQuiescent => PeakConsumption >= seen)

\* The counter has come down from a value that the peak still shows.
C12_Witness ==
    /\ CQuiescent
    /\ \E t \in Threads : cret[t].op = "add" /\ cret[t].delta < 0
    /\ Consumption < PeakConsumption
    /\ PeakConsumption = seen

\* A thread has updated current_value and not yet published it to the peak.
Publishing(t) == cthr[t].pc \in {"max_read", "max_cas"}

C14_TryAddLinearizable ==
    /\ current_value = tally
    /\ current_value <= limit["root"]
    /\ \A t \in Threads :
          cret[t].op = "try_add" =>
              /\ cret[t].max = limit["root"]
              /\ cret[t].res <=> cret[t].from + cret[t].delta <= cret[t].max

\* One try_add has taken effect while another stood between its read and its
\* compare-and-swap, which will now fail.
C14_Witness ==
    \E t, u \in Threads :
        /\ cthr[t].pc = "try_cas" /\ cthr[t].old # current_value
        /\ cret[u].op = "try_add" /\ cret[u].res /\ cret[u].delta > 0

\* C15: a tracker without consumption metric never has a negative consumption,
\* in any interleaving of calls that release only what they consumed; this is
\* what the DCHECK_GE after each add in consume and release asserts.
C15_NonNegative ==
    \A n \in Trackers : ~HasMetric(n) => consumption[n] >= 0

\* The root, which has a consumption metric, stands below zero while a release
\* is in progress.
C15_Witness ==
    /\ HasMetric("root") /\ consumption["root"] < 0
    /\ \E t \in Threads : pc[t] = "release"

\* The bytes charged directly at tracker n and not given back: what the threads
\* hold there and what the caches of the GcFunctions releasing there hold.
Direct(n) ==
    SumOver([c \in Callbacks |-> IF CbTracker(c) = n THEN cache[c] ELSE 0], Callbacks)
    + SumOver([t \in Threads |-> held[t][n]], Threads)

\* The trackers whose parent is n.
Children(n) == {c \in Trackers : Parent(c) = n}

\* C16: when no call is in progress, the consumption of each tracker is the
\* bytes charged directly at it plus the consumption of its children.
C16_SumOfChildren ==
    Quiescent =>
        \A n \in Trackers :
            consumption[n] = Direct(n) + SumOver(consumption, Children(n))

\* The root carries charges made at itself, at mid and below sib at once.
C16_Witness ==
    /\ Quiescent
    /\ Direct("root") > 0 /\ consumption["mid"] > 0 /\ consumption["sib"] > 0
    /\ consumption["mid"] > Direct("mid")

\* The trackers of _all_trackers that have a limit now, in their order.
Limited(n) == SelectSeq(all_trackers[n], LAMBDA m : limit[m] >= 0)

\* C17 as stated: in every reachable state _limit_trackers of each tracker is
\* the subsequence of its _all_trackers whose trackers have limit >= 0 now.
C17_LimitTrackersExact ==
    \A n \in Trackers : limit_trackers[n] = Limited(n)

\* The chain of tracker n starts with n, goes from each tracker to its parent
\* and ends with a tracker that has none.
WellFormed(n) ==
    LET all == all_trackers[n]
    IN /\ Len(all) >= 1
       /\ all[1] = n
       /\ \A x \in 1..(Len(all) - 1) : all[x + 1] = Parent(all[x])
       /\ Parent(all[Len(all)]) = NULL

\* C18: _all_trackers of every tracker is a well-formed chain in every state,
\* and no step changes it.
C18_ChainImmutable ==
    /\ [](\A n \in Trackers : WellFormed(n))
    /\ [][all_trackers' = all_trackers]_vars

\* After a set_limit on mid and the unregistration of sib, a try_consume on
\* the leaf has gone up the leaf's chain.
C18_Witness ==
    /\ ~IsChild("sib")
    /\ limit["mid"] = 0
    /\ ret["t1"].op = "try_consume" /\ ret["t1"].tracker = "leaf"
    /\ all_trackers["leaf"] = <<"leaf", "mid", "root">>

\* The trackers of n's chain strictly before end.
Before(n, end) ==
    {all_trackers[n][x] : x \in {y \in 1..Len(all_trackers[n]) :
                                    \A z \in 1..y : all_trackers[n][z] # end}}

ChainPos(n, m) == CHOOSE x \in 1..Len(all_trackers[n]) : all_trackers[n][x] = m

\* The trackers of n's chain that have a limit and stand strictly above it.
Over(n) == {m \in Chain(n) : limit[m] >= 0 /\ consumption[m] > limit[m]}

Rooms(c, n) == {limit[m] - c[m] : m \in {a \in Chain(n) : limit[a] >= 0}}

\* spare_capacity() is the least room under a limit of the chain, INT64_MAX
\* without a limit, and negative exactly when a limit is exceeded.
SpareIsLeastRoom ==
    \A n \in Trackers :
        /\ Rooms(consumption, n) = {} => SpareCapacity(n) = Int64Max
        /\ Rooms(consumption, n) # {} =>
              /\ SpareCapacity(n) \in Rooms(consumption, n)
              /\ \A r \in Rooms(consumption, n) : SpareCapacity(n) <= r
        /\ SpareCapacity(n) < 0 <=> Over(n) # {}

\* The tracker of thread t's last call had no metric, or its counter stood at
\* the metric's value when the call was made.
FreshAtCall(t) ==
    \/ pre.metric[ret[t].tracker] = <<>>
    \/ pre.consumption[ret[t].tracker] = MetricValue(pre.metric[ret[t].tracker])

\* The try_consume(b), b > 0, that thread t made has returned true exactly when
\* b was at most what spare_capacity() gave when the call was made.
SpareDecides(t) ==
    ret[t].res <=> ret[t].bytes <= SpareCapacityAt(pre.consumption, ret[t].tracker)

\* C21 as stated: spare_capacity() is the least room under a limit, and with
\* one thread and no GC callbacks a try_consume(b), b > 0, returns true exactly
\* when b <= spare_capacity().
C21_SpareDecidesAlways ==
    /\ SpareIsLeastRoom
    /\ \A t \in Threads :
          (ret[t].op = "try_consume" /\ ret[t].bytes > 0) => SpareDecides(t)

\* The same holds of every try_consume on a tracker without a metric, and on
\* one whose counter stood at the metric's value when the call was made.
SpareDecidesWhenFresh ==
    /\ SpareIsLeastRoom
    /\ \A t \in Threads :
          (ret[t].op = "try_consume" /\ ret[t].bytes > 0 /\ FreshAtCall(t)) => SpareDecides(t)

\* The limits of the trackers of n's chain that have one.
ChainLimits(n) == {limit[m] : m \in {a \in Chain(n) : limit[a] >= 0}}

RECURSIVE Below(_, _)
Below(n, d) ==
    IF d = 0 THEN {n}
    ELSE UNION {{child_trackers[m][x] : x \in 1..Len(child_trackers[m])} : m \in Below(n, d - 1)}

\* How far below n the tracker m is.
Depth(n, m) == CHOOSE d \in 0..Cardinality(Trackers) : m \in Below(n, d)

\* n and the trackers at most d levels below it: a parent before its children,
\* the children in the order of the child list.
RECURSIVE PreOrder(_, _)
RECURSIVE PreOrderOf(_, _, _)
PreOrder(n, d) ==
    <<n>> \o (IF d > 0 THEN PreOrderOf(child_trackers[n], 1, d - 1) ELSE <<>>)

PreOrderOf(list, x, d) ==
    IF x > Len(list) THEN <<>>
    ELSE PreOrder(list[x], d) \o PreOrderOf(list, x + 1, d)

\* C23: a list_mem_usage(out, cur_level, upper_level) on tracker n that has
\* returned left the records that were in out as they were and appended one
\* record for n and for each tracker at most upper_level - cur_level levels
\* below n, in pre-order with the children in registration order; each record
\* carries level = cur_level + depth, the parent's label (empty without a
\* parent) and the tracker's limit, current and peak consumption.
C23_ListMemUsage ==
    \A t \in Threads :
        ret[t].op = "list_mem_usage" =>
            LET n == ret[t].tracker
                cur == ret[t].bytes
                items == listing[t].items
                base == listing[t].base
                new == SubSeq(items, Len(base) + 1, Len(items))
                order == PreOrder(n, listing[t].upper - cur)
            IN /\ Len(items) >= Len(base)
               /\ SubSeq(items, 1, Len(base)) = base
               /\ Len(new) = Len(order)
               /\ \A x \in 1..Len(new) :
                     /\ new[x].label = order[x]
                     /\ new[x].level = cur + Depth(n, order[x])
                     /\ new[x].level <= Max(cur, listing[t].upper)
                     /\ new[x].parent_label =
                            (IF Parent(order[x]) = NULL THEN "" ELSE Parent(order[x]))
                     /\ new[x].limit = limit[order[x]]
                     /\ new[x].cur_consumption = consumption[order[x]]
                     /\ new[x].peak_consumption = peak[order[x]]
               /\ \A x, y \in 1..Len(new) : new[x].label = new[y].label => x = y

\* A list_mem_usage on the root, one level deep, into a vector that held a
\* record: the root, mid and sib were added, and the leaf below mid was not.
C23_Witness ==
    \E t \in Threads :
        /\ ret[t].op = "list_mem_usage" /\ ret[t].tracker = "root"
        /\ listing[t].upper - ret[t].bytes = 1
        /\ Len(listing[t].base) = 1
        /\ Len(listing[t].items) = 4
        /\ IsChild("leaf")
        /\ consumption["root"] > 0 /\ peak["root"] > consumption["root"]

\* The children of p that were constructed and have not unregistered, in the
\* order of their construction.
Registered_(p) ==
    SelectSeq(born, LAMBDA n : Parent(n) = p /\ child_tracker_it[n] = "in")

\* C24: the child list of every tracker holds exactly its constructed and not
\* yet unregistered children, each once and in construction order, and every
\* child that has not unregistered still has its entry.
C24_ChildLists ==
    /\ \A p \in Trackers : child_trackers[p] = Registered_(p)
    /\ \A n \in Trackers : child_tracker_it[n] = "in" => IsChild(n)
    /\ \A n \in Trackers : child_tracker_it[n] # "in" => Parent(n) = NULL \/ ~IsChild(n)

\* sib was constructed before mid and has unregistered: the root's list holds
\* mid alone, and the leaf is in mid's list.
C24_Witness ==
    /\ born = <<"sib", "mid", "leaf">>
    /\ child_tracker_it["sib"] = "end"
    /\ child_trackers["root"] = <<"mid">>
    /\ child_trackers["mid"] = <<"leaf">>

\* Thread t's try_consume is about to try_add at the root, which has a limit
\* and a metric.
AtRootLimit(t) ==
    /\ InTryConsume(t) /\ pc[t] = "try_loop"
    /\ Visited(t) = "root"
    /\ HasMetric("root") /\ limit["root"] >= 0

\* The root's counter holds what the metric showed when the call was made.
RootRefreshed == consumption["root"] = MetricValue(pre.metric["root"])

\* C25: when a try_consume on the root or on a tracker below it comes to
\* evaluate the limit of a root with a metric, the root's counter has been
\* refreshed from the metric.
C25_RefreshBeforeRootLimit ==
    \A t \in Threads : AtRootLimit(t) => RootRefreshed

\* The same holds of the calls made on the root itself.
RefreshBeforeOwnLimit ==
    \A t \in Threads : (AtRootLimit(t) /\ call[t].tracker = "root") => RootRefreshed

\* The trackers of thread t's chain that hold bytes of its call, by position.
Credited(t) ==
    {x \in 1..Len(all_trackers[call[t].tracker]) :
        contrib[t][all_trackers[call[t].tracker][x]] # 0}

\* The positions after i up to j.
Segment(i, j) == {x \in 1..j : x > i}

\* Thread t is inside a try_consume that adds.
Reserving(t) == InTryConsume(t) /\ pc[t] # "idle"

\* C26 as stated: in every state inside a try_consume the trackers the call
\* has credited are the ones from some position of the chain up to the root.
C26_CreditedIsRootSuffix ==
    \A t \in Threads :
        Reserving(t) =>
            \E k \in 0..Len(all_trackers[call[t].tracker]) :
                Credited(t) = Segment(k, Len(all_trackers[call[t].tracker]))

\* C26, amended: while the call walks from the root down, the credited trackers
\* are exactly those above the one it stands at, each with the call's bytes;
\* while it rolls back from the root down, they are exactly those above the
\* failed tracker that the rollback has not reached yet; the failed tracker and
\* the ones nearer to self hold nothing of the call, and no tracker ever holds
\* less than nothing.
C26_CreditedAboveCurrent ==
    \A t \in Threads :
        Reserving(t) =>
            LET all == all_trackers[call[t].tracker]
                upto == IF pc[t] = "rollback" THEN loc[t].j ELSE Len(all)
            IN /\ Credited(t) = Segment(loc[t].i, upto)
               /\ \A x \in 1..Len(all) :
                     contrib[t][all[x]] = (IF x \in Credited(t) THEN loc[t].bytes ELSE 0)
               /\ \A n \in Trackers : contrib[t][n] # 0 => n \in Chain(call[t].tracker)

\* A try_consume on the leaf failed at the leaf after the root and mid took
\* the bytes; the rollback has taken them back from the root and not yet from
\* mid.
C26_Witness ==
    \E t \in Threads :
        /\ Reserving(t) /\ pc[t] = "rollback" /\ call[t].tracker = "leaf"
        /\ loc[t].i = 1 /\ loc[t].j = 2
        /\ contrib[t]["root"] = 0 /\ contrib[t]["mid"] = loc[t].bytes
        /\ contrib[t]["leaf"] = 0

\* C27: a try_consume(b) returns false only when the last value GcMemory read
\* of a limited tracker's counter, plus b, exceeded that tracker's limit; the
\* value is the counter's own, with whatever calls in flight have added to it.
C27_DeniedOnCounterValue ==
    /\ \A t \in Threads :
          pc[t] = "rollback" =>
              /\ loc[t].limit >= 0
              /\ loc[t].limit = limit[Visited(t)]
              /\ loc[t].curr + loc[t].bytes > loc[t].limit
    /\ \A t \in Threads :
          (ret[t].op = "try_consume" /\ ~ret[t].res) =>
              ret[t].at # NULL /\ limit[ret[t].at] >= 0

\* Thread t is refused at the root on a counter value that holds the bytes of
\* thread u's try_consume, which has failed lower down and is about to take
\* them back; without them t's bytes fit under the root's limit.
C27_Witness ==
    \E t, u \in Threads :
        /\ t # u
        /\ pc[t] = "rollback" /\ Visited(t) = "root"
        /\ loc[t].curr = consumption["root"]
        /\ pc[u] = "rollback" /\ contrib[u]["root"] = loc[u].bytes
        /\ consumption["root"] - contrib[u]["root"] + loc[t].bytes <= limit["root"]

\* max_consumption of the GcMemory thread t is in: limit - bytes (line 208).
MaxConsumption(t) == loc[t].limit - loc[t].bytes

\* GcMemory starts: with the counter at or below max_consumption it returns
\* false, no callback invoked and nothing freed; otherwise it holds the
\* tracker's lock and goes to the callbacks with the value it read.
GcStarts(t) ==
    (pc[t] = "gc" /\ pc'[t] # "gc") =>
        IF consumption[Visited(t)] <= MaxConsumption(t)
        THEN /\ pc'[t] = "try_add"
             /\ gcLog'[t] = gcLog[t] /\ gcCalls'[t] = gcCalls[t]
             /\ cache' = cache /\ consumption' = consumption
             /\ gc_lock'[Visited(t)] = NULL
        ELSE /\ pc'[t] = "gc_call"
             /\ gc_lock'[Visited(t)] = t
             /\ loc'[t].curr = consumption[Visited(t)]

\* GcMemory reads the counter again after a callback, under the lock.
GcReads(t) ==
    (pc[t] = "gc_read" /\ pc'[t] # "gc_read") =>
        /\ gc_lock[Visited(t)] = t
        /\ loc'[t].curr = consumption[Visited(t)]

\* GcMemory ends after the last callback and returns whether the value read
\* last is above max_consumption.
GcEnds(t) ==
    (pc[t] = "gc_call" /\ pc'[t] \notin {"gc_call", "gc_read"}) =>
        /\ loc[t].k > Len(gc_functions[Visited(t)])
        /\ gc_lock[Visited(t)] = t /\ gc_lock'[Visited(t)] = NULL
        /\ pc'[t] = (IF loc[t].curr > MaxConsumption(t) THEN "rollback" ELSE "try_add")

\* C28: GcMemory reads the tracker's consumption under the tracker's GC lock;
\* at or below max_consumption it returns false without invoking a callback;
\* otherwise it invokes the callbacks and returns whether the consumption read
\* after the last callback is above max_consumption.
C28_GcMemoryResult ==
    [][\A t \in Threads : GcStarts(t) /\ GcReads(t) /\ GcEnds(t)]_vars

\* A release by another thread made room between the failed try_add and
\* GcMemory: the call is back at try_add and no callback was invoked.
C28_Witness ==
    \E t \in Threads :
        /\ pc[t] = "try_add" /\ Visited(t) = "root"
        /\ \A c \in Callbacks : gcCalls[t][c] = 0
        /\ gc_functions["root"] # <<>>
        /\ consumption["root"] = MaxConsumption(t)

GcLocksOf(t) == {n \in Trackers : gc_lock[n] = t}

ChildLocksOf(t) == {n \in Trackers : child_trackers_lock[n] = t}

\* The tracker whose child-list lock thread t's list_mem_usage is waiting for.
WaitsFor(t) ==
    IF pc[t] = "list" /\ listing[t].frames[Len(listing[t].frames)].at = "lock"
    THEN {listing[t].frames[Len(listing[t].frames)].node}
    ELSE {}

\* C30 as stated: no thread holds locks of two different trackers, none holds
\* a child-list lock together with a GC lock, and none waits for a lock while
\* it holds the lock of another tracker.
C30_OneTrackerAtATime ==
    \A t \in Threads :
        /\ Cardinality(GcLocksOf(t) \cup ChildLocksOf(t)) <= 1
        /\ GcLocksOf(t) = {} \/ ChildLocksOf(t) = {}
        /\ WaitsFor(t) # {} => ChildLocksOf(t) \subseteq WaitsFor(t)

\* C30, amended: no thread holds a child-list lock together with a GC lock or
\* two GC locks; the child-list locks a thread holds are those of a tracker
\* and of ancestors of it, held by a list_mem_usage that went down through
\* them, and the lock it waits for is that of a tracker below all of them;
\* unregister_from_parent holds the lock of the tracker's parent alone.
C30_LocksNestDownward ==
    \A t \in Threads :
        /\ GcLocksOf(t) = {} \/ ChildLocksOf(t) = {}
        /\ Cardinality(GcLocksOf(t)) <= 1
        /\ \A n, m \in ChildLocksOf(t) : n \in Chain(m) \/ m \in Chain(n)
        /\ ChildLocksOf(t) # {} => pc[t] \in {"list", "erase", "insert"}
        /\ pc[t] = "list" =>
              ChildLocksOf(t) = {listing[t].frames[x].node :
                                   x \in {y \in 1..Len(listing[t].frames) :
                                            listing[t].frames[y].at = "children"}}
        /\ \A w \in WaitsFor(t) : \A n \in ChildLocksOf(t) : n # w /\ n \in Chain(w)
        /\ pc[t] \in {"erase", "insert"} => ChildLocksOf(t) = {Parent(call[t].tracker)}

\* A list_mem_usage on the root holds the child-list locks of the root and of
\* mid while another thread is inside GcMemory on the root.
C30_Witness ==
    \E t, u \in Threads :
        /\ ChildLocksOf(t) = {"root", "mid"}
        /\ GcLocksOf(u) = {"root"}

\* The locks of the trackers of thread t's chain that other threads hold.
LocksOfOthers(t) ==
    {n \in Chain(call[t].tracker) : \/ gc_lock[n] \notin {NULL, t}
                                    \/ child_trackers_lock[n] \notin {NULL, t}}

\* Thread t is in the loop of consume, of release, or of a try_consume that has
\* not had a try_add fail.
LockFree(t) == pc[t] \in {"consume", "release", "try_loop"}

\* C31: consume, release and a try_consume whose try_adds succeed take no
\* mutex: in their loops the thread holds no lock and its next step can be
\* taken whatever GC locks and child-list locks other threads hold.
C31_NoMutex ==
    \A t \in Threads :
        /\ LockFree(t) => GcLocksOf(t) = {} /\ ChildLocksOf(t) = {}
        /\ pc[t] = "consume" => ENABLED ConsumeStep(t)
        /\ pc[t] = "release" => ENABLED ReleaseStep(t)
        /\ pc[t] = "try_loop" => ENABLED TryVisit(t)

\* A consume is about to add to the root's counter while the other thread is
\* inside GcMemory on the root, holding its _gc_lock.
C31_Witness ==
    \E t, u \in Threads :
        /\ pc[t] = "consume" /\ all_trackers[call[t].tracker][loc[t].i] = "root"
        /\ gc_lock["root"] = u /\ u # t
        /\ "root" \in LocksOfOthers(t)

\* Thread t's consume_local or release_local ends with this step.
LocalEnds(t) == pc[t] = "local" /\ pc'[t] = "idle"

\* The end_tracker of thread t's call is one of the tracker's _all_trackers.
EndInChain(t) == loc[t].end \in Chain(call[t].tracker)

\* The call has reached the assertion "end_tracker is not an ancestor".
NotAnAncestor(t) == ~ret'[t].res /\ ret'[t].at = loc[t].end

\* The call has added its bytes to every tracker of the chain, the root included.
WholeChainChanged(t) ==
    \A m \in Trackers :
        consumption'[m] - pre.consumption[m] =
            IF m \in Chain(call[t].tracker) THEN loc[t].bytes ELSE 0

\* A tracker with a limit stands in the chain before end_tracker (before the
\* end of the chain when end_tracker is not in it).
LimitOnTheWay(t) ==
    \E x \in 1..Len(all_trackers[call[t].tracker]) :
        /\ HasLimit(all_trackers[call[t].tracker][x])
        /\ \A y \in 1..x : all_trackers[call[t].tracker][y] # loc[t].end

\* C32 as stated: consume_local leaves through the early return whenever
\* end_tracker is in the chain, and reaches the assertion "end_tracker is not
\* an ancestor" iff it is not, after it changed every tracker of the chain.
C32_EarlyReturnIffAncestor ==
    [][\A t \in Threads :
          LocalEnds(t) =>
              /\ EndInChain(t) => ret'[t].res
              /\ NotAnAncestor(t) <=> ~EndInChain(t)
              /\ NotAnAncestor(t) => WholeChainChanged(t)]_vars

\* C32, amended: with end_tracker in the chain consume_local leaves through
\* the early return unless a tracker before end_tracker has a limit, where a
\* debug build stops at DCHECK(!has_limit()); it never reaches "end_tracker is
\* not an ancestor" then.  With end_tracker outside the chain it never returns
\* early: it reaches that assertion after it changed every tracker of the
\* chain, or stops before at a tracker with a limit.
C32_EarlyReturnUnlessLimit ==
    [][\A t \in Threads :
          LocalEnds(t) =>
              /\ EndInChain(t) => ~NotAnAncestor(t)
              /\ (EndInChain(t) /\ ~LimitOnTheWay(t)) => ret'[t].res
              /\ ret'[t].res => EndInChain(t)
              /\ NotAnAncestor(t) => WholeChainChanged(t)
              /\ (~EndInChain(t) /\ ~LimitOnTheWay(t)) => NotAnAncestor(t)
              /\ (~ret'[t].res /\ ~NotAnAncestor(t)) =>
                    /\ LimitOnTheWay(t)
                    /\ HasLimit(ret'[t].at) /\ ret'[t].at \in Chain(call[t].tracker)]_vars

\* consume_local on the leaf with sib as end_tracker has reached the assertion
\* with its bytes on the leaf, on mid and on the root.
C32_Witness ==
    \E t \in Threads :
        /\ ret[t].op = "consume_local" /\ ret[t].tracker = "leaf"
        /\ ~ret[t].res /\ ret[t].at = "sib"
        /\ \A m \in Chain("leaf") : consumption[m] - pre.consumption[m] = ret[t].bytes

\* A thread other than t starts an operation.
OthersStart(t) == \E u \in Threads \ {t} : pc[u] = "idle" /\ pc'[u] # "idle"

\* The while loop of thread t's try_consume comes round and try_add fails again.
FailsAgain(t) == pc[t] = "try_add" /\ pc'[t] = "gc"

\* C33: every try_consume terminates.  While no other thread has done
\* anything, a try_add that follows GcMemory succeeds, so there is at most one
\* GC round at each ancestor; and when the other threads start only finitely
\* many operations, a try_consume that is in progress returns.
C33_TryConsumeTerminates ==
    /\ [][\A t \in Threads : Alone(t) => ~FailsAgain(t)]_vars
    /\ \A t \in Threads :
          <>[][~OthersStart(t)]_vars => (Reserving(t) ~> pc[t] = "idle")

\* A try_consume returned true after its try_add at the root failed, GcMemory
\* invoked a callback and the loop came round.
C33_Witness ==
    \E t \in Threads :
        /\ ret[t].op = "try_consume" /\ ret[t].res /\ ret[t].gc
        /\ pc[t] = "idle"

\* The next step of the operation thread t is in, whatever the operation.
Proceeds(t) ==
    \/ Progress(t)
    \/ /\ \/ LocalStep(t)
          \/ UnregisterErase(t)
          \/ AddChildInsert(t)
          \/ ListItem(t)
          \/ ListLock(t)
          \/ ListChildren(t)
       /\ UNCHANGED <<pre, peak>>

\* Thread t takes the child-list lock of tracker n with this step.
TakesChildLock(t, n) == child_trackers_lock[n] # t /\ child_trackers_lock'[n] = t

\* The proper ancestors of tracker n.
Above(n) == Chain(n) \ {n}

\* C34: no interleaving deadlocks.  Whenever threads are inside operations one
\* of them can take its next step; a thread that takes a child-list lock holds
\* no GC lock and only child-list locks of ancestors of that tracker; and a
\* GcFunction that is due is invoked, and its release made, whatever locks are
\* held.
C34_NoDeadlock ==
    /\ (\E t \in Threads : pc[t] # "idle") =>
          \E t \in Threads : pc[t] # "idle" /\ ENABLED Proceeds(t)
    /\ \A t \in Threads : \A n \in Trackers :
          ENABLED (Proceeds(t) /\ TakesChildLock(t, n)) =>
              /\ GcLocksOf(t) = {}
              /\ ChildLocksOf(t) \subseteq Above(n)
    /\ \A t \in Threads :
          (pc[t] = "gc_call" /\ loc[t].k <= Len(gc_functions[Visited(t)])) =>
              ENABLED (GcCallback(t, cache[gc_functions[Visited(t)][loc[t].k]]))

\* A GcFunction of the root is about to release its cache, under the root's GC
\* lock, while the other thread stands in unregister_from_parent or in the
\* constructor of sib and holds the root's child-list lock.
C34_Witness ==
    \E t, u \in Threads :
        /\ pc[t] = "gc_call" /\ Visited(t) = "root" /\ gc_lock["root"] = t
        /\ loc[t].k <= Len(gc_functions["root"])
        /\ cache[gc_functions["root"][loc[t].k]] > 0
        /\ pc[u] \in {"erase", "insert"} /\ child_trackers_lock["root"] = u

\* Thread t's try_consume has added its bytes to the tracker it visits.
Added(t) ==
    contrib'[t][Visited(t)] = contrib[t][Visited(t)] + loc[t].bytes

\* Thread t's try_consume visits a tracker: line 195 reads the limit the
\* tracker has now; below zero the bytes are added, otherwise they are added
\* iff they fit under that limit, and the call goes on with the limit it read.
VisitGated(t) ==
    (pc[t] = "try_loop" /\ loc'[t] # loc[t]) =>
        IF limit[Visited(t)] < 0
        THEN Added(t)
        ELSE IF consumption[Visited(t)] + loc[t].bytes <= limit[Visited(t)]
             THEN Added(t)
             ELSE /\ pc'[t] = "gc"
                  /\ loc'[t].limit = limit[Visited(t)]
                  /\ contrib'[t] = contrib[t]

\* The loop has come round: try_add is made with the limit read at the visit.
RetryGated(t) ==
    (pc[t] = "try_add" /\ pc'[t] # "try_add") =>
        IF consumption[Visited(t)] + loc[t].bytes <= loc[t].limit
        THEN Added(t)
        ELSE pc'[t] = "gc" /\ loc'[t].limit = loc[t].limit /\ contrib'[t] = contrib[t]

\* Between the visit and its end the call keeps the limit it read, and
\* GcMemory is made with it.
LimitKept(t) ==
    (pc[t] \in {"gc", "gc_call", "gc_read"} /\ pc'[t] \in {"gc", "gc_call", "gc_read", "try_add"}) =>
        loc'[t].limit = loc[t].limit

\* C35: try_consume reads a tracker's limit when it visits the tracker, so the
\* visit is gated by what set_limit stored last, and by nothing when that is
\* negative; the limit is read once per visit, and the retries of the visit
\* use the value read whatever set_limit stores meanwhile.
C35_LimitReadAtVisit ==
    [][\A t \in Threads : VisitGated(t) /\ RetryGated(t) /\ LimitKept(t)]_vars

\* The root was constructed without a limit and set_limit gave it one; a
\* try_consume was refused there, GcMemory made room, and while the call is
\* about to try again set_limit has stored another limit, under which the
\* bytes do not fit, while they fit under the one the call read.
C35_Witness ==
    \E t \in Threads :
        /\ pc[t] = "try_add" /\ Visited(t) = "root"
        /\ limit_trackers["root"] = <<>>
        /\ limit["root"] >= 0 /\ loc[t].limit # limit["root"]
        /\ consumption["root"] + loc[t].bytes <= loc[t].limit
        /\ consumption["root"] + loc[t].bytes > limit["root"]

\* C36: a try_consume(b) with b <= 0 returns true and has changed nothing: no
\* counter of any tracker (a negative b is no release), no cache (no GC ran),
\* and the counter of a tracker with a metric was not set to the metric.
C36_NothingToReserve ==
    \A t \in Threads :
        (ret[t].op = "try_consume" /\ ret[t].bytes <= 0) =>
            /\ ret[t].res
            /\ consumption = pre.consumption
            /\ cache = pre.cache
            /\ ~ret[t].gc /\ ret[t].at = NULL

\* A try_consume with a negative argument on the root has returned true while
\* the root stands above its limit and away from the value its metric had.
C36_Witness ==
    \E t \in Threads :
        /\ ret[t].op = "try_consume" /\ ret[t].bytes < 0 /\ ret[t].tracker = "root"
        /\ ret[t].res
        /\ limit["root"] >= 0 /\ consumption["root"] > limit["root"]
        /\ consumption["root"] # MetricValue(pre.metric["root"])

\* A step of _update_memory_metrics for the named tracker it stands at.
Publishes == update_at \in 1..Len(Names) /\ update_at' # update_at

\* A step of a call on a tracker.
TrackerStep == pc' # pc \/ consumption' # consumption

\* C37: _update_memory_metrics only reads the trackers.  Each of its steps
\* sets the gauge of its named tracker to the tracker's consumption() if the
\* tracker exists and leaves every gauge as it is if not, and changes no
\* tracker's consumption, peak, limit or child list; and no step of a call on
\* a tracker changes anything of the SystemMetrics.
C37_UpdateOnlyReads ==
    [][/\ Publishes =>
            /\ UNCHANGED <<tracked, peak>>
            /\ memory_metrics' =
                  IF exec_env[Names[update_at]] # NULL
                  THEN [memory_metrics EXCEPT
                          ![Names[update_at]] = consumption[exec_env[Names[update_at]]]]
                  ELSE memory_metrics
       /\ TrackerStep => UNCHANGED publisher]_vars

\* An update has run to its end while no call was in progress: the gauge of
\* every tracker that exists shows its consumption, which is not zero at the
\* process tracker, and the gauge of one that does not exist is untouched.
C37_Witness ==
    /\ update_at = 0 /\ Quiescent
    /\ exec_env["process"] = "root" /\ exec_env["load"] = NULL
    /\ memory_metrics["process"] = consumption["root"] /\ consumption["root"] > 0
    /\ memory_metrics["schema_change"] = consumption["leaf"]
    /\ consumption["sib"] > 0 /\ memory_metrics["load"] = 0

\* Some install has had its hook registered.
InstallSucceeded == \E x \in 1..Len(installs) : installs[x]

\* C38: install registers the metric groups and records the registry only if
\* register_hook succeeds, and a failed registration leaves no metric
\* registered and _registry null; the destructor deregisters the hook iff an
\* install succeeded, and at most once.
C38_InstallAndDestroy ==
    /\ ~InstallSucceeded => registry = NULL /\ metric_groups = {} /\ hooked = {}
    /\ (registry # NULL \/ metric_groups # {}) => InstallSucceeded
    /\ (alive /\ InstallSucceeded) =>
          registry # NULL /\ hooked = {registry} /\ metric_groups = Groups
    /\ alive => deregistered = 0
    /\ ~alive => /\ deregistered = 1 <=> InstallSucceeded
                 /\ hooked = {} /\ registry = NULL
    /\ deregistered <= 1

\* A first install failed to register the hook, a second one succeeded, and
\* the destructor has deregistered the hook.
C38_Witness ==
    /\ ~alive
    /\ Len(installs) = 2 /\ ~installs[1] /\ installs[2]
    /\ deregistered = 1 /\ hooked = {}

====
